---- MODULE Spec2Model ----
(***************************************************************************)
(* Identity and token lifecycle engine of the user service.                *)
(*                                                                         *)
(* The engine itself is stateless: all mutable state lives in the          *)
(* relational user table and in three families of Redis keys: refresh      *)
(* tokens, verification codes and send-rate-limit markers.                 *)
(* Every request is a process that walks through its handler one store     *)
(* call at a time, so that concurrent requests interleave exactly where    *)
(* the Go code talks to a store.                                           *)
(***************************************************************************)
EXTENDS Integers, Sequences, FiniteSets, TLC

(* ------------------------------ bounds -------------------------------- *)
NProc == 2            \* requests issued in one behaviour, all may overlap
MaxTicks == 1         \* clock advances in one behaviour
MaxSubLen == 2        \* longest subject string fed to ValidateToken

(* ------------------------- program constants -------------------------- *)
AccessExpiresIn == 3600           \* generateAccessToken: expiresIn
RefreshExpiresIn == 604800        \* generateRefreshToken: 7 * 24 * 3600
RateLimitWindow == 60             \* SendRegisterCode: 60*time.Second
CodeTTL == 600                    \* SendRegisterCode: 10 * time.Minute
MinPasswordLen == 6               \* Register: len(password) < 6

Procs == 1..NProc

VARIABLES
    now,      \* wall clock, whole seconds
    ticks,    \* number of clock advances so far
    env,      \* process environment: the two JWT signing secrets
    users,    \* rows of table `user`
    codes,    \* Redis verification_code:<email> -> [code, exp]
    limits,   \* Redis rate_limit:send_code:<email> -> expiry instant
    tokens,   \* Redis refresh_token:<token> -> [uid, exp]
    mail,     \* messages handed to the mail transport
    sendLog,  \* history: accepted rate-limit claims
    issued,   \* history: every refresh token that was ever persisted
    rotated,  \* history: old tokens whose RefreshToken call succeeded
    revoked,  \* history: tokens whose Logout call succeeded
    pc,       \* per request: position in its handler
    call,     \* per request: operation and arguments
    loc,      \* per request: local variables of the handler
    ret       \* per request: what the finished handler returned

vars == <<now, ticks, env, users, codes, limits, tokens, mail, sendLog,
          issued, rotated, revoked, pc, call, loc, ret>>

regStores == <<users, codes, limits, mail, sendLog>>

authStores == <<tokens, issued, rotated, revoked>>

(* ------------------------------ strings ------------------------------- *)
Digits == <<"0", "1", "2", "3", "4", "5", "6", "7", "8", "9">>

DigitVal(c) == CHOOSE d \in 0..9 : Digits[d + 1] = c

IsDigit(c) == \E d \in 0..9 : Digits[d + 1] = c

RECURSIVE FormatNat(_)
FormatNat(n) == IF n < 10 THEN <<Digits[n + 1]>>
                ELSE FormatNat(n \div 10) \o <<Digits[(n % 10) + 1]>>

\* fmt.Sprintf("%d", userID)
FormatInt(n) == IF n < 0 THEN <<"-">> \o FormatNat(-n) ELSE FormatNat(n)

RECURSIVE DigitsVal(_, _)
DigitsVal(s, acc) == IF s = <<>> THEN acc
                     ELSE DigitsVal(Tail(s), acc * 10 + DigitVal(Head(s)))

\* strconv.ParseInt(s, 10, 64): optional sign, then one or more decimal
\* digits.  Subjects of at most MaxSubLen characters stay far below 2^63, so
\* the range error of ParseInt cannot occur within the bounds.
ParseInt(s) ==
    LET signed == s # <<>> /\ Head(s) \in {"+", "-"}
        body == IF signed THEN Tail(s) ELSE s
        neg == signed /\ Head(s) = "-"
    IN  IF body = <<>> \/ \E i \in 1..Len(body) : ~IsDigit(body[i])
        THEN [ok |-> FALSE, val |-> 0]
        ELSE LET v == DigitsVal(body, 0)
             IN  [ok |-> TRUE, val |-> IF neg THEN -v ELSE v]

(* ------------------------------- tokens ------------------------------- *)
\* A token string is determined by what the HS256 signature covers: the
\* signing key and the registered claims, all in whole seconds.
NoToken == [fmt |-> "empty", key |-> "", sub |-> <<>>, exp |-> 0, nbf |-> 0,
            jti |-> 0]

MalformedToken == [NoToken EXCEPT !.fmt = "malformed"]

AccessSecret == "access-secret"

RefreshSecret == "refresh-secret"

generateAccessToken(userID, t) ==
    IF env.access = "" THEN [err |-> "AUTH_DATABASE_ERROR", tok |-> NoToken]
    ELSE [err |-> "",
          tok |-> [fmt |-> "jwt", key |-> env.access, sub |-> FormatInt(userID),
                   exp |-> t + AccessExpiresIn, nbf |-> t, jti |-> 0]]

\* faulty variant: the token is signed with whatever the secret is, empty or not
generateRefreshTokenUnchecked(userID, t) ==
    [err |-> "",
     tok |-> [fmt |-> "jwt", key |-> env.refresh, sub |-> FormatInt(userID),
              exp |-> t + RefreshExpiresIn, nbf |-> t, jti |-> userID]]

generateRefreshToken(userID, t) ==
    IF env.refresh = "" THEN [err |-> "AUTH_DATABASE_ERROR", tok |-> NoToken]
    ELSE [err |-> "",
          tok |-> [fmt |-> "jwt", key |-> env.refresh, sub |-> FormatInt(userID),
                   exp |-> t + RefreshExpiresIn, nbf |-> t, jti |-> userID]]

(* ------------------------------ results ------------------------------- *)
\* the empty string in the place of a password hash
EmptyHash == [salt |-> 0, digest |-> <<>>]

NoRet == [err |-> "none", uid |-> 0, access |-> NoToken, refresh |-> NoToken,
          hash |-> EmptyHash]

Ok == [NoRet EXCEPT !.err = ""]

Fail(e) == [NoRet EXCEPT !.err = e]

NoCall == [op |-> "none", id |-> 0, email |-> "", password |-> "", code |-> "",
           nickname |-> "", token |-> NoToken, user |-> 0]

NoLoc == [uid |-> 0, access |-> NoToken, refresh |-> NoToken, code |-> "",
          exp |-> 0, at |-> 0, late |-> FALSE, applied |-> 0, claimed |-> "none",
          sent |-> 0, start |-> {}, scanned |-> {}, keys |-> {}, kept |-> FALSE,
          revoked |-> FALSE, had |-> FALSE, seen |-> 0,
          skipped |-> {}]

\* the error of a store call that failed, as the driver words it
RawStoreError == "raw store error"

(* ---------------------------- Redis helpers --------------------------- *)
\* a key with a TTL is visible until its expiry instant
Live(store) == {k \in DOMAIN store : store[k].exp > now}

Put(store, k, v) == [x \in DOMAIN store \cup {k} |-> IF x = k THEN v ELSE store[x]]

Del(store, k) == [x \in DOMAIN store \ {k} |-> store[x]]

Purge(store, t) == [x \in {k \in DOMAIN store : store[k].exp > t} |-> store[x]]

(* ------------------------------- finish ------------------------------- *)
\* the handler returns r; its locals die, except the history flags
ReturnWith(p, r, l) ==
    /\ pc' = [pc EXCEPT ![p] = "done"]
    /\ ret' = [ret EXCEPT ![p] = r]
    /\ loc' = [loc EXCEPT ![p] = [NoLoc EXCEPT !.late = l.late, !.applied = l.applied,
                                                 !.at = l.at, !.claimed = l.claimed,
                                                 !.sent = l.sent, !.start = l.start,
                                                 !.keys = l.keys, !.kept = l.kept,
                                                 !.revoked = l.revoked, !.had = l.had,
                                                 !.skipped = l.skipped]]

Return(p, r) == ReturnWith(p, r, loc[p])

\* the handler moves on to label l with locals v
Goto(p, l, v) ==
    /\ pc' = [pc EXCEPT ![p] = l]
    /\ loc' = [loc EXCEPT ![p] = v]
    /\ UNCHANGED ret

\* the handler passed its argument checks and moves to its first store call
Enter(p, l, v) ==
    /\ pc' = [pc EXCEPT ![p] = l]
    /\ loc' = [loc EXCEPT ![p] = v]
    /\ ret' = [ret EXCEPT ![p] = NoRet]

\* Requests are interchangeable, so they are numbered in the order in which
\* they arrive: request p arrives once every request before it has.
Begin(p, c) ==
    /\ pc[p] = "idle"
    /\ \A q \in Procs : q < p => pc[q] # "idle"
    /\ call' = [call EXCEPT ![p] = [c EXCEPT !.id = p]]

(* ---------------------------- user table ------------------------------ *)
\* bcrypt: the hash carries its salt, and verification recomputes with it
Hash(password, salt) == [salt |-> salt, digest |-> <<salt, password>>]

hashPassword(password, salt) == Hash(password, salt)

checkPasswordHash(password, hash) == hash = Hash(password, hash.salt)

\* SELECT ... WHERE email = ? ... LIMIT 1
GetByEmail(email) == {u \in users : u.email = email}

(* ---------------------------------------------------------------------- *)
(* Login                                                                  *)
(* ---------------------------------------------------------------------- *)
Emails == {"a@x.com", "b@x.com"}

GoodPassword == "pw123456"

LoginCall(p, email, password) ==
    /\ Begin(p, [NoCall EXCEPT !.op = "Login", !.email = email,
                               !.password = password])
    /\ IF email = "" \/ password = ""
       THEN ReturnWith(p, Fail("email and password are required"), NoLoc)
       ELSE Enter(p, "login_get", NoLoc)
    /\ UNCHANGED <<now, ticks, env, regStores, authStores>>

\* faulty variant: an unknown email is reported as such
LoginGetByEmailTelling(p) ==
    /\ pc[p] = "login_get"
    /\ LET found == GetByEmail(call[p].email)
       IN  IF found = {}
           THEN Return(p, Fail("ErrUserNotFound"))
           ELSE LET user == CHOOSE u \in found : TRUE
                IN  IF ~checkPasswordHash(call[p].password, user.hash)
                    THEN Return(p, Fail("ErrInvalidCredentials"))
                    ELSE Goto(p, "login_mint", [loc[p] EXCEPT !.uid = user.id])
    /\ UNCHANGED <<now, ticks, env, regStores, authStores, call>>

LoginGetByEmail(p) ==
    /\ pc[p] = "login_get"
    /\ LET found == GetByEmail(call[p].email)
       IN  IF found = {}
           THEN Return(p, Fail("ErrInvalidCredentials"))
           ELSE LET user == CHOOSE u \in found : TRUE
                IN  IF ~checkPasswordHash(call[p].password, user.hash)
                    THEN Return(p, Fail("ErrInvalidCredentials"))
                    ELSE Goto(p, "login_mint", [loc[p] EXCEPT !.uid = user.id])
    /\ UNCHANGED <<now, ticks, env, regStores, authStores, call>>

LoginMint(p) ==
    /\ pc[p] = "login_mint"
    /\ LET a == generateAccessToken(loc[p].uid, now)
           r == generateRefreshToken(loc[p].uid, now)
       IN  IF a.err # "" THEN Return(p, Fail(a.err))
           ELSE IF r.err # "" THEN Return(p, Fail(r.err))
           ELSE Goto(p, "login_store",
                     [loc[p] EXCEPT !.access = a.tok, !.refresh = r.tok,
                                    !.exp = now + RefreshExpiresIn])
    /\ UNCHANGED <<now, ticks, env, regStores, authStores, call>>

\* faulty variant: the record is stored with the lifetime of an access token
StoreRefreshTokenShortLived(p) ==
    /\ pc[p] = "login_store"
    /\ tokens' = Put(tokens, loc[p].refresh,
                     [uid |-> loc[p].uid, exp |-> now + AccessExpiresIn])
    /\ issued' = issued \cup {loc[p].refresh}
    /\ Return(p, [Ok EXCEPT !.access = loc[p].access, !.refresh = loc[p].refresh])
    /\ UNCHANGED <<now, ticks, env, regStores, rotated, revoked, call>>

\* SET refresh_token:<token> <userID> EX time.Until(expiresAt)
StoreRefreshToken(p) ==
    /\ pc[p] = "login_store"
    /\ tokens' = Put(tokens, loc[p].refresh, [uid |-> loc[p].uid, exp |-> loc[p].exp])
    /\ issued' = issued \cup {loc[p].refresh}
    /\ Return(p, [Ok EXCEPT !.access = loc[p].access, !.refresh = loc[p].refresh])
    /\ UNCHANGED <<now, ticks, env, regStores, rotated, revoked, call>>

(* ---------------------------------------------------------------------- *)
(* SendRegisterCode                                                       *)
(* ---------------------------------------------------------------------- *)
\* generateVerificationCode draws six random digits
Codes == {"123456", "654321"}

SendRegisterCodeCall(p, email) ==
    /\ Begin(p, [NoCall EXCEPT !.op = "Send", !.email = email])
    /\ IF email = ""
       THEN ReturnWith(p, Fail("email is required"), NoLoc)
       ELSE Enter(p, "send_get", NoLoc)
    /\ UNCHANGED <<now, ticks, env, regStores, authStores>>

SendGetByEmail(p) ==
    /\ pc[p] = "send_get"
    /\ IF GetByEmail(call[p].email) # {}
       THEN Return(p, Fail("ErrEmailAlreadyExists"))
       ELSE Goto(p, "send_limit", loc[p])
    /\ UNCHANGED <<now, ticks, env, regStores, authStores, call>>

\* faulty variant: plain SET, the marker is written whether or not one exists
SetSendRateLimitAlways(p) ==
    /\ pc[p] = "send_limit"
    /\ limits' = Put(limits, call[p].email,
                     [val |-> now, exp |-> now + RateLimitWindow])
    /\ sendLog' = sendLog \cup {[email |-> call[p].email, at |-> now,
                                 id |-> call[p].id]}
    /\ Goto(p, "send_store", [loc[p] EXCEPT !.at = now, !.claimed = "yes"])
    /\ UNCHANGED <<now, ticks, env, users, codes, mail, authStores, call>>

\* faulty variant: the marker outlives the window by one second
CheckAndSetSendRateLimitLate(p) ==
    /\ pc[p] = "send_limit"
    /\ IF call[p].email \in Live(limits)
       THEN /\ ReturnWith(p, Fail("ErrTooManyRequests"),
                          [loc[p] EXCEPT !.at = now, !.claimed = "no"])
            /\ UNCHANGED <<limits, sendLog>>
       ELSE /\ limits' = Put(limits, call[p].email,
                             [val |-> now, exp |-> now + RateLimitWindow + 1])
            /\ sendLog' = sendLog \cup {[email |-> call[p].email, at |-> now,
                                         id |-> call[p].id]}
            /\ Goto(p, "send_store", [loc[p] EXCEPT !.at = now, !.claimed = "yes"])
    /\ UNCHANGED <<now, ticks, env, users, codes, mail, authStores, call>>

\* faulty variant: a rejected call restarts the marker's expiry
CheckAndSetSendRateLimitTouch(p) ==
    /\ pc[p] = "send_limit"
    /\ IF call[p].email \in Live(limits)
       THEN /\ limits' = Put(limits, call[p].email,
                             [limits[call[p].email] EXCEPT !.exp = now + RateLimitWindow])
            /\ ReturnWith(p, Fail("ErrTooManyRequests"),
                          [loc[p] EXCEPT !.at = now, !.claimed = "no"])
            /\ UNCHANGED sendLog
       ELSE /\ limits' = Put(limits, call[p].email,
                             [val |-> now, exp |-> now + RateLimitWindow])
            /\ sendLog' = sendLog \cup {[email |-> call[p].email, at |-> now,
                                         id |-> call[p].id]}
            /\ Goto(p, "send_store", [loc[p] EXCEPT !.at = now, !.claimed = "yes"])
    /\ UNCHANGED <<now, ticks, env, users, codes, mail, authStores, call>>

\* SETNX rate_limit:send_code:<email> <unix time> EX duration, one command
CheckAndSetSendRateLimit(p) ==
    /\ pc[p] = "send_limit"
    /\ IF call[p].email \in Live(limits)
       THEN /\ ReturnWith(p, Fail("ErrTooManyRequests"),
                          [loc[p] EXCEPT !.at = now, !.claimed = "no"])
            /\ UNCHANGED <<limits, sendLog>>
       ELSE /\ limits' = Put(limits, call[p].email,
                             [val |-> now, exp |-> now + RateLimitWindow])
            /\ sendLog' = sendLog \cup {[email |-> call[p].email, at |-> now,
                                            id |-> call[p].id]}
            /\ Goto(p, "send_store", [loc[p] EXCEPT !.at = now, !.claimed = "yes"])
    /\ UNCHANGED <<now, ticks, env, users, codes, mail, authStores, call>>

\* faulty variant: SET ... NX, a code that is still stored is left in place
StoreVerificationCodeIfAbsent(p) ==
    /\ pc[p] = "send_store"
    /\ \E code \in Codes :
          /\ codes' = IF call[p].email \in Live(codes) THEN codes
                      ELSE Put(codes, call[p].email,
                               [code |-> code, exp |-> now + CodeTTL])
          /\ Goto(p, "send_mail", [loc[p] EXCEPT !.code = code])
    /\ UNCHANGED <<now, ticks, env, users, limits, mail, sendLog, authStores, call>>

\* SET verification_code:<email> <code> EX time.Until(expiresAt)
StoreVerificationCode(p) ==
    /\ pc[p] = "send_store"
    /\ \E code \in Codes :
          /\ codes' = Put(codes, call[p].email, [code |-> code, exp |-> now + CodeTTL])
          /\ Goto(p, "send_mail", [loc[p] EXCEPT !.code = code])
    /\ UNCHANGED <<now, ticks, env, users, limits, mail, sendLog, authStores, call>>

\* faulty variant: a failed delivery takes the stored code back
sendVerificationEmailRollback(p) ==
    /\ pc[p] = "send_mail"
    /\ \/ /\ mail' = mail \cup {[to |-> call[p].email, code |-> loc[p].code,
                                     id |-> call[p].id]}
          /\ Return(p, Ok)
          /\ UNCHANGED codes
       \/ /\ Return(p, Fail("failed to send verification email"))
          /\ codes' = Del(codes, call[p].email)
          /\ UNCHANGED mail
    /\ UNCHANGED <<now, ticks, env, users, limits, sendLog, authStores, call>>

\* the SMTP transport either takes the message or reports an error; the
\* stored code is kept in both cases
sendVerificationEmail(p) ==
    /\ pc[p] = "send_mail"
    /\ \/ /\ mail' = mail \cup {[to |-> call[p].email, code |-> loc[p].code,
                                     id |-> call[p].id]}
          /\ Return(p, Ok)
       \/ /\ Return(p, Fail("failed to send verification email"))
          /\ UNCHANGED mail
    /\ UNCHANGED <<now, ticks, env, users, codes, limits, sendLog, authStores, call>>

(* ---------------------------------------------------------------------- *)
(* Register                                                               *)
(* ---------------------------------------------------------------------- *)
\* the words of the driver's message for a violated unique key
DuplicateEntry == <<"Error", "1062:", "Duplicate", "entry", "for", "key", "uk_email">>

ToLower(w) == CASE w = "Duplicate" -> "duplicate"
                [] w = "UNIQUE" -> "unique"
                [] w = "Error" -> "error"
                [] w = "Data" -> "data"
                [] w = "Lock" -> "lock"
                [] OTHER -> w

\* faulty variant: every error the database server numbers counts as a
\* violated unique key
isUniqueConstraintErrorAnyServerError(err) ==
    /\ err # <<>>
    /\ \E i \in 1..Len(err) : ToLower(err[i]) \in {"duplicate", "unique", "error"}

isUniqueConstraintError(err) ==
    /\ err # <<>>
    /\ \/ \E i \in 1..Len(err) : ToLower(err[i]) \in {"duplicate", "unique"}
       \/ \E i \in 1..(Len(err) - 1) :
             ToLower(err[i]) = "constraint" /\ ToLower(err[i + 1]) = "failed:"

\* the verification messages delivered to an address so far
MailTo(email) == {m \in mail : m.to = email}

\* a call is launched fresh when the code it presents is the stored one and
\* the email is not registered yet
Fresh(email, code) ==
    /\ email \in Live(codes)
    /\ codes[email].code = code
    /\ GetByEmail(email) = {}

RegisterCall(p, email, password, code, nickname) ==
    /\ Begin(p, [NoCall EXCEPT !.op = "Register", !.email = email,
                               !.password = password, !.code = code,
                               !.nickname = nickname])
    /\ IF email = "" \/ password = "" \/ code = ""
       THEN ReturnWith(p, Fail("email, password and code are required"), NoLoc)
       ELSE Enter(p, "reg_get", [NoLoc EXCEPT !.late = ~Fresh(email, code),
                                              !.sent = Cardinality(MailTo(email))])
    /\ UNCHANGED <<now, ticks, env, regStores, authStores>>

\* GET verification_code:<email>
GetVerificationCode(p) ==
    /\ pc[p] = "reg_get"
    /\ IF call[p].email \notin Live(codes)
       THEN Return(p, Fail("ErrInvalidVerificationCode"))
       ELSE Goto(p, "reg_ttl", [loc[p] EXCEPT !.code = codes[call[p].email].code,
                                              !.seen = codes[call[p].email].exp])
    /\ UNCHANGED <<now, ticks, env, regStores, authStores, call>>

\* TTL verification_code:<email>: the seconds left, or a negative duration
\* when the key is gone by now
TTL(store, k) == IF k \in Live(store) THEN store[k].exp - now ELSE -1

\* faulty variant: the presented code is not compared with the stored one
GetVerificationCodeTTLAnyCode(p) ==
    /\ pc[p] = "reg_ttl"
    /\ LET ExpiresAt == now + TTL(codes, call[p].email)
       IN  IF now > ExpiresAt
           THEN Return(p, Fail("ErrVerificationCodeExpired"))
           ELSE IF Len(call[p].password) < MinPasswordLen
           THEN Return(p, Fail("password must be at least 6 characters long"))
           ELSE Goto(p, "reg_del", [loc[p] EXCEPT !.exp = ExpiresAt])
    /\ UNCHANGED <<now, ticks, env, regStores, authStores, call>>

\* faulty variant: a refused code is deleted from the store
GetVerificationCodeTTLBurning(p) ==
    /\ pc[p] = "reg_ttl"
    /\ LET ExpiresAt == now + TTL(codes, call[p].email)
       IN  IF loc[p].code # call[p].code
           THEN /\ Return(p, Fail("ErrInvalidVerificationCode"))
                /\ codes' = Del(codes, call[p].email)
           ELSE /\ UNCHANGED codes
                /\ IF now > ExpiresAt
                   THEN Return(p, Fail("ErrVerificationCodeExpired"))
                   ELSE IF Len(call[p].password) < MinPasswordLen
                   THEN Return(p, Fail("password must be at least 6 characters long"))
                   ELSE Goto(p, "reg_del", [loc[p] EXCEPT !.exp = ExpiresAt])
    /\ UNCHANGED <<now, ticks, env, users, limits, mail, sendLog, authStores, call>>

\* the second store call of GetVerificationCode, then the handler's checks
\* of the code, its expiry and the password length
GetVerificationCodeTTL(p) ==
    /\ pc[p] = "reg_ttl"
    /\ LET ExpiresAt == now + TTL(codes, call[p].email)
       IN  IF loc[p].code # call[p].code
           THEN Return(p, Fail("ErrInvalidVerificationCode"))
           ELSE IF now > ExpiresAt
           THEN Return(p, Fail("ErrVerificationCodeExpired"))
           ELSE IF Len(call[p].password) < MinPasswordLen
           THEN Return(p, Fail("password must be at least 6 characters long"))
           ELSE Goto(p, "reg_del", [loc[p] EXCEPT !.exp = ExpiresAt])
    /\ UNCHANGED <<now, ticks, env, regStores, authStores, call>>

\* faulty variant: the consumed code is left in the store
DeleteVerificationCodeSkipped(p) ==
    /\ pc[p] = "reg_del"
    /\ Goto(p, "reg_create", loc[p])
    /\ UNCHANGED <<now, ticks, env, regStores, authStores, call>>

\* DEL verification_code:<email>
DeleteVerificationCode(p) ==
    /\ pc[p] = "reg_del"
    /\ codes' = Del(codes, call[p].email)
    /\ Goto(p, "reg_create", loc[p])
    /\ UNCHANGED <<now, ticks, env, users, limits, mail, sendLog, authStores, call>>

Salts == {1, 2}

\* faulty variant: the table has no unique key on email
CreateWithoutUniqueKey(p) ==
    /\ pc[p] = "reg_create"
    /\ \E salt \in Salts :
          LET id == Cardinality(users) + 1
          IN  /\ users' = users \cup
                    {[id |-> id, email |-> call[p].email,
                      hash |-> hashPassword(call[p].password, salt),
                      nickname |-> call[p].nickname]}
              /\ Return(p, [Ok EXCEPT !.uid = id])
    /\ UNCHANGED <<now, ticks, env, codes, limits, mail, sendLog, authStores, call>>

\* faulty variant: the user is handed back as it was inserted, hash included
CreateReturningHash(p) ==
    /\ pc[p] = "reg_create"
    /\ IF GetByEmail(call[p].email) # {}
       THEN /\ Return(p, IF isUniqueConstraintError(DuplicateEntry)
                         THEN Fail("ErrEmailAlreadyExists")
                         ELSE Fail("raw store error"))
            /\ UNCHANGED users
       ELSE \E salt \in Salts :
              LET id == Cardinality(users) + 1
              IN  /\ users' = users \cup
                        {[id |-> id, email |-> call[p].email,
                          hash |-> hashPassword(call[p].password, salt),
                          nickname |-> call[p].nickname]}
                  /\ Return(p, [Ok EXCEPT !.uid = id,
                                          !.hash = hashPassword(call[p].password, salt)])
    /\ UNCHANGED <<now, ticks, env, codes, limits, mail, sendLog, authStores, call>>

\* INSERT INTO user: key uk_email rejects a second row with the same email;
\* the handler then clears PasswordHash in the User it hands back
Create(p) ==
    /\ pc[p] = "reg_create"
    /\ IF GetByEmail(call[p].email) # {}
       THEN /\ Return(p, IF isUniqueConstraintError(DuplicateEntry)
                         THEN Fail("ErrEmailAlreadyExists")
                         ELSE Fail("raw store error"))
            /\ UNCHANGED users
       ELSE \E salt \in Salts :
              LET id == Cardinality(users) + 1
              IN  /\ users' = users \cup
                        {[id |-> id, email |-> call[p].email,
                          hash |-> hashPassword(call[p].password, salt),
                          nickname |-> call[p].nickname]}
                  /\ Return(p, [Ok EXCEPT !.uid = id, !.hash = EmptyHash])
    /\ UNCHANGED <<now, ticks, env, codes, limits, mail, sendLog, authStores, call>>

(* ---------------------------------------------------------------------- *)
(* RefreshToken                                                           *)
(* ---------------------------------------------------------------------- *)
\* a well-formed refresh token that this service never issued
ForgedToken == [fmt |-> "jwt", key |-> "unrelated-secret", sub |-> <<"1">>,
                exp |-> RefreshExpiresIn, nbf |-> 0, jti |-> 1]

\* refresh-token strings a caller can present
TokenInputs == issued \cup {NoToken, ForgedToken}

RefreshTokenCall(p, t) ==
    /\ Begin(p, [NoCall EXCEPT !.op = "Refresh", !.token = t])
    /\ IF t = NoToken
       THEN ReturnWith(p, Fail("USER_REFRESH_TOKEN_INVALID"), NoLoc)
       ELSE Enter(p, "refresh_get", [NoLoc EXCEPT !.late = (t \in rotated),
                                                  !.revoked = (t \in revoked)])
    /\ UNCHANGED <<now, ticks, env, regStores, authStores>>

\* faulty variant: without a record the owner is taken from the token itself
GetUserIDByRefreshTokenTrusting(p) ==
    /\ pc[p] = "refresh_get"
    /\ Goto(p, "refresh_mint",
            [loc[p] EXCEPT !.uid = IF call[p].token \in Live(tokens)
                                   THEN tokens[call[p].token].uid
                                   ELSE ParseInt(call[p].token.sub).val])
    /\ UNCHANGED <<now, ticks, env, regStores, authStores, call>>

\* GET refresh_token:<token>
GetUserIDByRefreshToken(p) ==
    /\ pc[p] = "refresh_get"
    /\ IF call[p].token \notin Live(tokens)
       THEN Return(p, Fail("USER_REFRESH_TOKEN_INVALID"))
       ELSE Goto(p, "refresh_mint", [loc[p] EXCEPT !.uid = tokens[call[p].token].uid])
    /\ UNCHANGED <<now, ticks, env, regStores, authStores, call>>

\* faulty variant: the access token is minted for another user (user id + 1)
refreshTokenInTransactionOtherUser(p) ==
    /\ pc[p] = "refresh_mint"
    /\ LET a == generateAccessToken(loc[p].uid + 1, now)
           r == generateRefreshToken(loc[p].uid, now)
       IN  IF a.err # "" \/ r.err # ""
           THEN Return(p, Fail("USER_INTERNAL_ERROR"))
           ELSE Goto(p, "swap_del",
                     [loc[p] EXCEPT !.access = a.tok, !.refresh = r.tok,
                                    !.exp = now + RefreshExpiresIn])
    /\ UNCHANGED <<now, ticks, env, regStores, authStores, call>>

refreshTokenInTransaction(p) ==
    /\ pc[p] = "refresh_mint"
    /\ LET a == generateAccessToken(loc[p].uid, now)
           r == generateRefreshToken(loc[p].uid, now)
       IN  IF a.err # "" \/ r.err # ""
           THEN Return(p, Fail("USER_INTERNAL_ERROR"))
           ELSE Goto(p, "swap_del",
                     [loc[p] EXCEPT !.access = a.tok, !.refresh = r.tok,
                                    !.exp = now + RefreshExpiresIn])
    /\ UNCHANGED <<now, ticks, env, regStores, authStores, call>>

\* first command of the pipeline: DEL refresh_token:<old>
RefreshTokenAtomicallyDel(p) ==
    /\ pc[p] = "swap_del"
    /\ tokens' = Del(tokens, call[p].token)
    /\ Goto(p, "swap_set", [loc[p] EXCEPT !.applied = 1,
                                          !.had = (call[p].token \in Live(tokens))])
    /\ UNCHANGED <<now, ticks, env, regStores, issued, rotated, revoked, call>>

\* second command of the pipeline: SET refresh_token:<new> <userID> EX ttl,
\* after which Exec returns and the handler hands back the new pair
RefreshTokenAtomicallySet(p) ==
    /\ pc[p] = "swap_set"
    /\ tokens' = Put(tokens, loc[p].refresh, [uid |-> loc[p].uid, exp |-> loc[p].exp])
    /\ issued' = issued \cup {loc[p].refresh}
    /\ rotated' = rotated \cup {call[p].token}
    /\ ReturnWith(p, [Ok EXCEPT !.access = loc[p].access, !.refresh = loc[p].refresh],
                  [loc[p] EXCEPT !.applied = 2])
    /\ UNCHANGED <<now, ticks, env, regStores, revoked, call>>

\* Exec reports an error: the commands the server already ran stay applied
RefreshTokenAtomicallyFail(p) ==
    /\ pc[p] \in {"swap_del", "swap_set"}
    /\ Return(p, Fail("USER_DATABASE_ERROR"))
    /\ UNCHANGED <<now, ticks, env, regStores, authStores, call>>

(* ---------------------------------------------------------------------- *)
(* Logout                                                                 *)
(* ---------------------------------------------------------------------- *)
LogoutCall(p, t) ==
    /\ Begin(p, [NoCall EXCEPT !.op = "Logout", !.token = t])
    /\ IF t = NoToken
       THEN ReturnWith(p, Fail("USER_REFRESH_TOKEN_INVALID"), NoLoc)
       ELSE Enter(p, "logout_del", NoLoc)
    /\ UNCHANGED <<now, ticks, env, regStores, authStores>>

\* faulty variant: deleting a record that is not there is reported as an error
DeleteRefreshTokenStrict(p) ==
    /\ pc[p] = "logout_del"
    /\ tokens' = Del(tokens, call[p].token)
    /\ Return(p, IF call[p].token \in Live(tokens) THEN Ok ELSE Fail("USER_DATABASE_ERROR"))
    /\ revoked' = IF call[p].token \in Live(tokens)
                  THEN revoked \cup {call[p].token} ELSE revoked
    /\ UNCHANGED <<now, ticks, env, regStores, issued, rotated, call>>

\* DEL refresh_token:<token>
DeleteRefreshToken(p) ==
    /\ pc[p] = "logout_del"
    /\ tokens' = Del(tokens, call[p].token)
    /\ revoked' = revoked \cup {call[p].token}
    /\ Return(p, Ok)
    /\ UNCHANGED <<now, ticks, env, regStores, issued, rotated, call>>

(* ---------------------------------------------------------------------- *)
(* DeleteAllRefreshTokens (revoke all sessions of a user)                 *)
(* ---------------------------------------------------------------------- *)
\* SCAN 0 refresh_token:* opens the iteration; start remembers the records
\* that exist at this point
DeleteAllRefreshTokensCall(p, userID) ==
    /\ Begin(p, [NoCall EXCEPT !.op = "RevokeAll", !.user = userID])
    /\ Enter(p, "revoke_scan", [NoLoc EXCEPT !.start = Live(tokens)])
    /\ UNCHANGED <<now, ticks, env, regStores, authStores>>

\* iter.Next returns a key not returned before, and GET reads its owner; the
\* key is kept when the owner is userID
ScanNext(p) ==
    /\ pc[p] = "revoke_scan"
    /\ \E k \in Live(tokens) \ loc[p].scanned :
          Goto(p, "revoke_scan",
               [loc[p] EXCEPT !.scanned = @ \cup {k},
                              !.keys = IF tokens[k].uid = call[p].user
                                       THEN @ \cup {k} ELSE @])
    /\ UNCHANGED <<now, ticks, env, regStores, authStores, call>>

\* faulty variant: a failed GET of an owner ends the call with the error
ScanNextGetErrorFatal(p) ==
    /\ pc[p] = "revoke_scan"
    /\ \E k \in Live(tokens) \ loc[p].scanned :
          ReturnWith(p, Fail(RawStoreError),
                     [loc[p] EXCEPT !.scanned = @ \cup {k}, !.skipped = @ \cup {k},
                                    !.keys = {}])
    /\ UNCHANGED <<now, ticks, env, regStores, authStores, call>>

\* GET of the key that iter.Next returned fails: the loop moves on without it
ScanNextGetError(p) ==
    /\ pc[p] = "revoke_scan"
    /\ \E k \in Live(tokens) \ loc[p].scanned :
          Goto(p, "revoke_scan", [loc[p] EXCEPT !.scanned = @ \cup {k},
                                                !.skipped = @ \cup {k}])
    /\ UNCHANGED <<now, ticks, env, regStores, authStores, call>>

\* the iteration ends once every key that has been there since it began has
\* been returned; with nothing collected the call is over
ScanEnd(p) ==
    /\ pc[p] = "revoke_scan"
    /\ (loc[p].start \cap Live(tokens)) \subseteq loc[p].scanned
    /\ IF loc[p].keys = {}
       THEN Return(p, Ok)
       ELSE Goto(p, "revoke_del", loc[p])
    /\ UNCHANGED <<now, ticks, env, regStores, authStores, call>>

\* iter.Err reports a failed SCAN
ScanError(p) ==
    /\ pc[p] = "revoke_scan"
    /\ ReturnWith(p, Fail(RawStoreError),
                  [loc[p] EXCEPT !.keys = {}, !.claimed = "scan failed"])
    /\ UNCHANGED <<now, ticks, env, regStores, authStores, call>>

\* DEL key [key ...]
DeleteKeys(p) ==
    /\ pc[p] = "revoke_del"
    /\ tokens' = [t \in DOMAIN tokens \ loc[p].keys |-> tokens[t]]
    /\ Return(p, Ok)
    /\ UNCHANGED <<now, ticks, env, regStores, issued, rotated, revoked, call>>

\* DEL reports an error and nothing is deleted
DeleteKeysError(p) ==
    /\ pc[p] = "revoke_del"
    /\ ReturnWith(p, Fail(RawStoreError),
                  [loc[p] EXCEPT !.keys = {}, !.claimed = "delete failed"])
    /\ UNCHANGED <<now, ticks, env, regStores, authStores, call>>

(* ---------------------------------------------------------------------- *)
(* Store outages: a pending store call reports an error other than "not   *)
(* found", and the handler returns what its error branch returns          *)
(* ---------------------------------------------------------------------- *)

\* faulty variant: a failed GetByEmail is taken for "no such user"
SendRegisterCodeStoreErrorAsNotFound(p) ==
    /\ pc[p] \in {"send_get", "send_limit", "send_store"}
    /\ IF pc[p] = "send_get"
       THEN Goto(p, "send_limit", loc[p])
       ELSE Return(p, Fail(RawStoreError))
    /\ UNCHANGED <<now, ticks, env, regStores, authStores, call>>

\* SendRegisterCode: `return err` after GetByEmail, CheckAndSetSendRateLimit
\* and StoreVerificationCode
\* faulty variant: when storing the code fails the marker is given back
SendRegisterCodeStoreErrorReleasing(p) ==
    /\ pc[p] \in {"send_get", "send_limit", "send_store"}
    /\ Return(p, Fail(RawStoreError))
    /\ limits' = IF pc[p] = "send_store" THEN Del(limits, call[p].email) ELSE limits
    /\ UNCHANGED <<now, ticks, env, users, codes, mail, sendLog, authStores, call>>

SendRegisterCodeStoreError(p) ==
    /\ pc[p] \in {"send_get", "send_limit", "send_store"}
    /\ Return(p, Fail(RawStoreError))
    /\ UNCHANGED <<now, ticks, env, regStores, authStores, call>>

\* faulty variant: a failed delete of the code ends the call with an error
RegisterStoreErrorStrict(p) ==
    /\ pc[p] \in {"reg_get", "reg_ttl", "reg_del", "reg_create"}
    /\ CASE pc[p] \in {"reg_get", "reg_ttl"} ->
              Return(p, Fail("ErrInvalidVerificationCode"))
         [] pc[p] = "reg_del" -> Return(p, Fail(RawStoreError))
         [] pc[p] = "reg_create" ->
              Return(p, IF isUniqueConstraintError(<<RawStoreError>>)
                        THEN Fail("ErrEmailAlreadyExists")
                        ELSE Fail(RawStoreError))
    /\ UNCHANGED <<now, ticks, env, regStores, authStores, call>>

\* Register: any error of GetVerificationCode is InvalidVerificationCode, a
\* failed delete is only logged, a failed insert that is no unique-key
\* violation is returned as it is
RegisterStoreError(p) ==
    /\ pc[p] \in {"reg_get", "reg_ttl", "reg_del", "reg_create"}
    /\ CASE pc[p] \in {"reg_get", "reg_ttl"} ->
              Return(p, Fail("ErrInvalidVerificationCode"))
         [] pc[p] = "reg_del" -> Goto(p, "reg_create", [loc[p] EXCEPT !.kept = TRUE])
         [] pc[p] = "reg_create" ->
              Return(p, IF isUniqueConstraintError(<<RawStoreError>>)
                        THEN Fail("ErrEmailAlreadyExists")
                        ELSE Fail(RawStoreError))
    /\ UNCHANGED <<now, ticks, env, regStores, authStores, call>>

\* Login: `return nil, err` after GetByEmail and StoreRefreshToken
LoginStoreError(p) ==
    /\ pc[p] \in {"login_get", "login_store"}
    /\ Return(p, Fail(RawStoreError))
    /\ UNCHANGED <<now, ticks, env, regStores, authStores, call>>

\* RefreshToken: any error of the lookup is the invalid-refresh-token error
RefreshTokenStoreError(p) ==
    /\ pc[p] = "refresh_get"
    /\ Return(p, Fail("USER_REFRESH_TOKEN_INVALID"))
    /\ UNCHANGED <<now, ticks, env, regStores, authStores, call>>

\* Logout: a failed delete is the database error
LogoutStoreError(p) ==
    /\ pc[p] = "logout_del"
    /\ Return(p, Fail("USER_DATABASE_ERROR"))
    /\ UNCHANGED <<now, ticks, env, regStores, authStores, call>>

(* ---------------------------------------------------------------------- *)
(* ValidateToken                                                          *)
(* ---------------------------------------------------------------------- *)
ValidateTokenCall(p, t) ==
    /\ Begin(p, [NoCall EXCEPT !.op = "Validate", !.token = t])
    /\ IF t = NoToken
       THEN ReturnWith(p, Fail("USER_INVALID_TOKEN"), [NoLoc EXCEPT !.at = now])
       ELSE IF env.access = ""
       THEN ReturnWith(p, Fail("AUTH_DATABASE_ERROR"), [NoLoc EXCEPT !.at = now])
       ELSE Enter(p, "validate_parse", [NoLoc EXCEPT !.at = now])
    /\ UNCHANGED <<now, ticks, env, regStores, authStores>>

\* faulty variant: the claims are read without verifying the signature
ParseWithClaimsUnverified(p) ==
    /\ pc[p] = "validate_parse"
    /\ LET t == call[p].token
       IN  IF \/ t.fmt # "jwt"
              \/ ~(now < t.exp)
              \/ now < t.nbf
           THEN Return(p, Fail("USER_INVALID_TOKEN"))
           ELSE Goto(p, "validate_claims", loc[p])
    /\ UNCHANGED <<now, ticks, env, regStores, authStores, call>>

\* jwt.ParseWithClaims: decode, verify the HS256 signature with the access
\* secret, then validate the registered claims against the clock: the token
\* is good while now < exp and now >= nbf.  Every error ends the handler
\* with the invalid-token error.
ParseWithClaims(p) ==
    /\ pc[p] = "validate_parse"
    /\ LET t == call[p].token
       IN  IF \/ t.fmt # "jwt"
              \/ t.key # env.access
              \/ ~(now < t.exp)
              \/ now < t.nbf
           THEN Return(p, Fail("USER_INVALID_TOKEN"))
           ELSE Goto(p, "validate_claims", loc[p])
    /\ UNCHANGED <<now, ticks, env, regStores, authStores, call>>

\* claims.ExpiresAt.Before(time.Now()), then strconv.ParseInt on the subject.
\* The clock counts whole seconds and exp is a whole second: an instant of
\* second `now` lies after exp when exp < now, before it when exp > now, and
\* on either side when exp = now.
ValidateClaims(p) ==
    /\ pc[p] = "validate_claims"
    /\ LET t == call[p].token
           r == ParseInt(t.sub)
       IN  \E expired \in BOOLEAN :
              /\ t.exp < now => expired
              /\ t.exp > now => ~expired
              /\ IF expired THEN Return(p, Fail("USER_TOKEN_EXPIRED"))
                 ELSE IF ~r.ok THEN Return(p, Fail("USER_INVALID_TOKEN"))
                 ELSE Return(p, [Ok EXCEPT !.uid = r.val])
    /\ UNCHANGED <<now, ticks, env, regStores, authStores, call>>

(* ---------------------------------------------------------------------- *)
(* Clock: Redis drops every key whose TTL has run out                     *)
(* ---------------------------------------------------------------------- *)
Tick(d) ==
    /\ ticks < MaxTicks
    /\ ticks' = ticks + 1
    /\ now' = now + d
    /\ codes' = Purge(codes, now + d)
    /\ limits' = Purge(limits, now + d)
    /\ tokens' = Purge(tokens, now + d)
    /\ UNCHANGED <<env, users, mail, sendLog, issued, rotated, revoked,
                   pc, call, loc, ret>>

(* ---------------------------------------------------------------------- *)
(* Specifications                                                         *)
(* ---------------------------------------------------------------------- *)
Empty == [x \in {} |-> 0]

\* no request is in flight and the clock starts at 0
Idle ==
    /\ now = 0
    /\ ticks = 0
    /\ pc = [p \in Procs |-> "idle"]
    /\ call = [p \in Procs |-> NoCall]
    /\ loc = [p \in Procs |-> NoLoc]
    /\ ret = [p \in Procs |-> NoRet]

\* The service starts with empty stores, or it has just served one
\* SendRegisterCode("a@x.com") at instant 0 (marker claimed, code stored,
\* message handed over), which is the state that call leaves behind.
Init ==
    /\ Idle
    /\ env = [access |-> AccessSecret, refresh |-> RefreshSecret]
    /\ users = {}
    /\ tokens = Empty
    /\ issued = {}
    /\ rotated = {}
    /\ revoked = {}
    /\ \/ /\ codes = Empty
          /\ limits = Empty
          /\ mail = {}
          /\ sendLog = {}
       \/ /\ codes = [e \in {"a@x.com"} |-> [code |-> "123456", exp |-> CodeTTL]]
          /\ limits = [e \in {"a@x.com"} |-> [val |-> 0, exp |-> RateLimitWindow]]
          /\ mail = {[to |-> "a@x.com", code |-> "123456", id |-> 0]}
          /\ sendLog = {[email |-> "a@x.com", at |-> 0, id |-> 0]}

\* the token lifecycle starts from a user table that registration has filled
RegisteredUsers ==
    {[id |-> 1, email |-> "a@x.com", hash |-> Hash(GoodPassword, 1), nickname |-> "nick"],
     [id |-> 2, email |-> "b@x.com", hash |-> Hash(GoodPassword, 2), nickname |-> "nick"]}

\* Nobody is logged in, or user 1 has just logged in at instant 0 and holds
\* the refresh token that Login minted and stored.
InitAuth ==
    /\ Idle
    /\ env = [access |-> AccessSecret, refresh |-> RefreshSecret]
    /\ users = RegisteredUsers
    /\ codes = Empty
    /\ limits = Empty
    /\ mail = {}
    /\ sendLog = {}
    /\ rotated = {}
    /\ revoked = {}
    /\ \/ /\ tokens = Empty
          /\ issued = {}
       \/ LET t == generateRefreshToken(1, 0).tok
          IN  /\ tokens = [k \in {t} |-> [uid |-> 1, exp |-> RefreshExpiresIn]]
              /\ issued = {t}

LoginInputs == {<<"a@x.com", GoodPassword>>, <<"b@x.com", GoodPassword>>,
                <<"a@x.com", "wrong1">>, <<"nobody@x.com", GoodPassword>>,
                <<"", GoodPassword>>}

LoginStep ==
    \E p \in Procs :
        \/ \E c \in LoginInputs : LoginCall(p, c[1], c[2])
        \/ LoginGetByEmail(p)
        \/ LoginMint(p)
        \/ StoreRefreshToken(p)

RefreshStep ==
    \E p \in Procs :
        \/ \E t \in TokenInputs : RefreshTokenCall(p, t)
        \/ GetUserIDByRefreshToken(p)
        \/ refreshTokenInTransaction(p)
        \/ RefreshTokenAtomicallyDel(p)
        \/ RefreshTokenAtomicallySet(p)
        \/ RefreshTokenAtomicallyFail(p)

LogoutStep ==
    \E p \in Procs :
        \/ \E t \in TokenInputs : LogoutCall(p, t)
        \/ DeleteRefreshToken(p)

SendStep ==
    \E p \in Procs :
        \/ \E e \in Emails : SendRegisterCodeCall(p, e)
        \/ SendGetByEmail(p)
        \/ CheckAndSetSendRateLimit(p)
        \/ StoreVerificationCode(p)
        \/ sendVerificationEmail(p)

\* the caller presents one fixed code; whether it is the stored one depends
\* on what generateVerificationCode drew
RegisterInputs == {<<e, GoodPassword, "123456", "nick">> : e \in Emails}

RegisterStep ==
    \E p \in Procs :
        \/ \E c \in RegisterInputs : RegisterCall(p, c[1], c[2], c[3], c[4])
        \/ GetVerificationCode(p)
        \/ GetVerificationCodeTTL(p)
        \/ DeleteVerificationCode(p)
        \/ Create(p)

\* the clock moves to just short of the rate-limit window, or past it
NextReg == SendStep \/ RegisterStep \/ Tick(RateLimitWindow - 1) \/ Tick(RateLimitWindow)

Spec == Init /\ [][NextReg]_vars

\* characters a subject claim is built from
SubChars == {"0", "1", "7", "-", "+", "a"}

RECURSIVE Strings(_)
Strings(n) == IF n = 0 THEN {<<>>}
              ELSE LET shorter == Strings(n - 1)
                   IN  shorter \cup {Append(s, c) : s \in shorter, c \in SubChars}

Subjects == Strings(MaxSubLen)

\* access-token strings a caller can present: none, garbage, and HS256 tokens
\* signed with either secret, for any subject, expiring at instant 0, at
\* instant 1 or an hour after instant 0, valid from instant 0 or 1
AccessInputs ==
    {NoToken, MalformedToken} \cup
    {[fmt |-> "jwt", key |-> k, sub |-> s, exp |-> e, nbf |-> n, jti |-> 0] :
        k \in {AccessSecret, RefreshSecret}, s \in Subjects,
        e \in {0, 1, AccessExpiresIn}, n \in {0, 1}}

\* ValidateToken touches no store, so requests cannot affect one another and
\* one request is followed
ValidateStep ==
    \E p \in {1} :
        \/ \E t \in AccessInputs : ValidateTokenCall(p, t)
        \/ ParseWithClaims(p)
        \/ ValidateClaims(p)

InitValidate ==
    /\ Idle
    /\ env \in {[access |-> AccessSecret, refresh |-> RefreshSecret],
                [access |-> "", refresh |-> RefreshSecret]}
    /\ users = {}
    /\ codes = Empty
    /\ limits = Empty
    /\ tokens = Empty
    /\ mail = {}
    /\ sendLog = {}
    /\ issued = {}
    /\ rotated = {}
    /\ revoked = {}

NextValidate == ValidateStep \/ Tick(1)

SpecValidate == InitValidate /\ [][NextValidate]_vars

StoreErrorStep ==
    \E p \in Procs :
        \/ SendRegisterCodeStoreError(p)
        \/ RegisterStoreError(p)
        \/ LoginStoreError(p)
        \/ RefreshTokenStoreError(p)
        \/ LogoutStoreError(p)

\* b@x.com is registered, a@x.com is not and may have been sent a code
InitErr ==
    /\ Idle
    /\ env = [access |-> AccessSecret, refresh |-> RefreshSecret]
    /\ users = {[id |-> 1, email |-> "b@x.com", hash |-> Hash(GoodPassword, 1),
                 nickname |-> "nick"]}
    /\ tokens = Empty
    /\ issued = {}
    /\ rotated = {}
    /\ revoked = {}
    /\ \/ /\ codes = Empty
          /\ limits = Empty
          /\ mail = {}
          /\ sendLog = {}
       \/ /\ codes = [e \in {"a@x.com"} |-> [code |-> "123456", exp |-> CodeTTL]]
          /\ limits = [e \in {"a@x.com"} |-> [val |-> 0, exp |-> RateLimitWindow]]
          /\ mail = {[to |-> "a@x.com", code |-> "123456", id |-> 0]}
          /\ sendLog = {[email |-> "a@x.com", at |-> 0, id |-> 0]}

NextErr == \/ SendStep \/ RegisterStep \/ LoginStep \/ RefreshStep \/ LogoutStep
           \/ StoreErrorStep \/ Tick(RateLimitWindow)

\* all five operations, with store outages
SpecErr == InitErr /\ [][NextErr]_vars

\* what a caller may put in the four fields of a Register request
Passwords == {GoodPassword, "", "short"}

RegisterFields ==
    {<<e, pw, c, n>> : e \in {"a@x.com", ""}, pw \in Passwords,
                       c \in Codes \cup {""}, n \in {"nick", ""}}

RegisterAnyStep ==
    \E p \in Procs :
        \/ \E c \in RegisterFields : RegisterCall(p, c[1], c[2], c[3], c[4])
        \/ GetVerificationCode(p)
        \/ GetVerificationCodeTTL(p)
        \/ DeleteVerificationCode(p)
        \/ Create(p)

\* the clock moves to the last second of a code's life, or one second past it
NextCode == SendStep \/ RegisterAnyStep \/ Tick(CodeTTL - 1) \/ Tick(CodeTTL + 1)

\* SendRegisterCode and Register over every shape of request, with codes
\* that run out
SpecCode == Init /\ [][NextCode]_vars

RevokeStep ==
    \E p \in Procs :
        \/ \E u \in {1, 2} : DeleteAllRefreshTokensCall(p, u)
        \/ ScanNext(p)
        \/ ScanNextGetError(p)
        \/ ScanEnd(p)
        \/ ScanError(p)
        \/ DeleteKeys(p)
        \/ DeleteKeysError(p)

\* both users are logged in (each holds the session a Login at instant 0
\* left behind), or nobody is
InitRevoke ==
    /\ Idle
    /\ env = [access |-> AccessSecret, refresh |-> RefreshSecret]
    /\ users = RegisteredUsers
    /\ codes = Empty
    /\ limits = Empty
    /\ mail = {}
    /\ sendLog = {}
    /\ rotated = {}
    /\ revoked = {}
    /\ \/ /\ tokens = Empty
          /\ issued = {}
       \/ LET t == [u \in {1, 2} |-> generateRefreshToken(u, 0).tok]
          IN  /\ tokens = [k \in {t[1], t[2]} |->
                              [uid |-> IF k = t[1] THEN 1 ELSE 2,
                               exp |-> RefreshExpiresIn]]
              /\ issued = {t[1], t[2]}

NextRevoke == RevokeStep \/ LoginStep \/ LogoutStep \/ Tick(1)

\* revoking all sessions of a user while users log in and out
SpecRevoke == InitRevoke /\ [][NextRevoke]_vars

NextRevokeFail == RevokeStep \/ LogoutStep \/ Tick(1)

\* revoking all sessions of a user over a store whose commands may fail
SpecRevokeFail == InitRevoke /\ [][NextRevokeFail]_vars

\* DeleteAllRefreshTokens with every GET of an owner answered
RevokeReadableStep ==
    \E p \in Procs :
        \/ \E u \in {1, 2} : DeleteAllRefreshTokensCall(p, u)
        \/ ScanNext(p)
        \/ ScanEnd(p)
        \/ ScanError(p)
        \/ DeleteKeys(p)
        \/ DeleteKeysError(p)

NextRevokeRace == RevokeReadableStep \/ RefreshStep \/ Tick(1)

\* revoking all sessions of a user while tokens are being rotated
SpecRevokeRace == InitRevoke /\ [][NextRevokeRace]_vars

(* ---------------------------------------------------------------------- *)
(* The exposed operations: what a client receives                         *)
(* ---------------------------------------------------------------------- *)
\* AuthService.Login copies the whole pair into its response
LoginResponse(r) ==
    [access_token |-> r.access, access_expires_in |-> AccessExpiresIn,
     refresh_token |-> r.refresh, refresh_expires_in |-> RefreshExpiresIn]

\* AuthService.RefreshToken copies the access token and its lifetime only
RefreshTokenResponse(r) ==
    [access_token |-> r.access, access_expires_in |-> AccessExpiresIn]

\* the response to request q, which has returned without error
Response(q) ==
    IF call[q].op = "Login" THEN LoginResponse(ret[q])
    ELSE RefreshTokenResponse(ret[q])

\* The refresh token a client holds after requests 1..q: the one in the
\* latest response that carries a refresh token, and before any such
\* response the one from its login at instant 0.
RECURSIVE MostRecent(_)
MostRecent(q) ==
    IF q = 0 THEN generateRefreshToken(1, 0).tok
    ELSE IF ret[q].err = "" /\ "refresh_token" \in DOMAIN Response(q)
         THEN Response(q).refresh_token
         ELSE MostRecent(q - 1)

\* one client makes its calls in succession
InSuccession(p) == \A q \in Procs : q < p => pc[q] = "done"

ClientStep ==
    \E p \in Procs :
        \/ InSuccession(p) /\ RefreshTokenCall(p, MostRecent(p - 1))
        \/ InSuccession(p) /\ \E c \in LoginInputs : LoginCall(p, c[1], c[2])
        \/ GetUserIDByRefreshToken(p)
        \/ refreshTokenInTransaction(p)
        \/ RefreshTokenAtomicallyDel(p)
        \/ RefreshTokenAtomicallySet(p)
        \/ LoginGetByEmail(p)
        \/ LoginMint(p)
        \/ StoreRefreshToken(p)

\* the client logged in as user 1 at instant 0 and holds that session
InitClient == InitAuth /\ tokens # Empty

NextClient == ClientStep \/ Tick(1)

SpecClient == InitClient /\ [][NextClient]_vars

\* the caller tries either code for a@x.com
RegisterRetryInputs == {<<"a@x.com", GoodPassword, c, "nick">> : c \in Codes}

RegisterRetryStep ==
    \E p \in Procs :
        \/ \E c \in RegisterRetryInputs : RegisterCall(p, c[1], c[2], c[3], c[4])
        \/ GetVerificationCode(p)
        \/ GetVerificationCodeTTL(p)
        \/ DeleteVerificationCode(p)
        \/ Create(p)

NextRetry == SendStep \/ RegisterRetryStep \/ Tick(CodeTTL)

\* registering with a wrong code, a stale code and the right code
SpecRetry == Init /\ [][NextRetry]_vars

\* SendRegisterCode with a store or a mail transport that may fail, and
\* callers that come back just before the window ends
NextSendFail == \/ SendStep
                \/ \E p \in Procs : SendRegisterCodeStoreError(p)
                \/ Tick(RateLimitWindow - 1)

SpecSendFail == Init /\ [][NextSendFail]_vars

\* what the driver reports when the INSERT fails for a reason other than a
\* taken email: a nickname longer than the column, a lock wait that timed
\* out, a server that cannot be reached, a request that ran out of time
CreateFailures ==
    {<<"Error", "1406", "(22001):", "Data", "too", "long", "for", "column",
       "'nickname'", "at", "row", "1">>,
     <<"Error", "1205", "(HY000):", "Lock", "wait", "timeout", "exceeded;",
       "try", "restarting", "transaction">>,
     <<"dial", "tcp", "127.0.0.1:3306:", "connect:", "connection", "refused">>,
     <<"context", "deadline", "exceeded">>}

\* userRepo.Create returns such an error and Register classifies it
CreateFailure(p) ==
    /\ pc[p] = "reg_create"
    /\ \E m \in CreateFailures :
          Return(p, IF isUniqueConstraintError(m)
                    THEN Fail("ErrEmailAlreadyExists")
                    ELSE Fail(RawStoreError))
    /\ UNCHANGED <<now, ticks, env, regStores, authStores, call>>

NextCreate == RegisterStep \/ (\E p \in Procs : CreateFailure(p)) \/ Tick(1)

SpecCreate == Init /\ [][NextCreate]_vars

\* the access token that came with the session of user 1 issued at instant 0
OldAccessToken ==
    [fmt |-> "jwt", key |-> AccessSecret, sub |-> FormatInt(1),
     exp |-> AccessExpiresIn, nbf |-> 0, jti |-> 0]

\* access tokens a client holds: the ones Login and RefreshToken handed out
HeldAccessTokens == ({ret[q].access : q \in Procs} \ {NoToken}) \cup {OldAccessToken}

ValidateHeldStep ==
    \E p \in Procs :
        \/ \E t \in HeldAccessTokens : ValidateTokenCall(p, t)
        \/ ParseWithClaims(p)
        \/ ValidateClaims(p)

\* the process environment holds both secrets, or lacks one or both; the
\* session store may hold a session from an earlier run
InitConfig ==
    /\ Idle
    /\ env \in [access : {AccessSecret, ""}, refresh : {RefreshSecret, ""}]
    /\ users = RegisteredUsers
    /\ codes = Empty
    /\ limits = Empty
    /\ mail = {}
    /\ sendLog = {}
    /\ rotated = {}
    /\ revoked = {}
    /\ \/ /\ tokens = Empty
          /\ issued = {}
       \/ LET t == [fmt |-> "jwt", key |-> RefreshSecret, sub |-> FormatInt(1),
                    exp |-> RefreshExpiresIn, nbf |-> 0, jti |-> 1]
          IN  /\ tokens = [k \in {t} |-> [uid |-> 1, exp |-> RefreshExpiresIn]]
              /\ issued = {t}

NextConfig == LoginStep \/ RefreshStep \/ ValidateHeldStep \/ Tick(1)

\* issuing and validating tokens under every configuration of the secrets
SpecConfig == InitConfig /\ [][NextConfig]_vars

\* the clock moves by a second, or by the whole life of a refresh token
NextSession == \/ LoginStep \/ RefreshStep \/ LogoutStep
               \/ Tick(1) \/ Tick(RefreshExpiresIn)

\* the token lifecycle with sessions that run out
SpecSession == InitAuth /\ [][NextSession]_vars

\* Sessions that have already ended: as InitAuth, or user 1 logged in at
\* instant 0 and has logged out again (Logout returned success), which
\* leaves the store empty.
InitLogout ==
    /\ Idle
    /\ env = [access |-> AccessSecret, refresh |-> RefreshSecret]
    /\ users = RegisteredUsers
    /\ codes = Empty
    /\ limits = Empty
    /\ mail = {}
    /\ sendLog = {}
    /\ rotated = {}
    /\ LET t == generateRefreshToken(1, 0).tok
       IN  \/ /\ tokens = Empty
              /\ issued = {}
              /\ revoked = {}
           \/ /\ tokens = [k \in {t} |-> [uid |-> 1, exp |-> RefreshExpiresIn]]
              /\ issued = {t}
              /\ revoked = {}
           \/ /\ tokens = Empty
              /\ issued = {t}
              /\ revoked = {t}

NextLogout == LoginStep \/ RefreshStep \/ LogoutStep \/ Tick(1)

SpecLogout == InitLogout /\ [][NextLogout]_vars

NextAuth == LoginStep \/ RefreshStep \/ LogoutStep \/ Tick(1)

SpecAuth == InitAuth /\ [][NextAuth]_vars

(* ---------------------------------------------------------------------- *)
(* Token rotation                                                         *)
(* ---------------------------------------------------------------------- *)
Resolves(t) == t \in Live(tokens)

RefreshDone(p) == call[p].op = "Refresh" /\ pc[p] = "done"

RefreshOk(p) == RefreshDone(p) /\ ret[p].err = ""

\* two RefreshToken calls on the same old token, neither started after the
\* other had returned a new pair
RacingRefresh(p, q) ==
    /\ p # q
    /\ call[p].op = "Refresh" /\ call[q].op = "Refresh"
    /\ call[p].token = call[q].token
    /\ ~loc[p].late /\ ~loc[q].late

\* C1: two concurrent RefreshToken calls presenting the same old refresh token
\* never both succeed with two different new refresh tokens that both resolve
\* in the store.
C1_RotationRaceOneWinner ==
    \A p, q \in Procs :
        (RacingRefresh(p, q) /\ RefreshOk(p) /\ RefreshOk(q)
            /\ ret[p].refresh # ret[q].refresh)
        => ~(Resolves(ret[p].refresh) /\ Resolves(ret[q].refresh))

\* C2: a RefreshToken call that starts after RefreshToken(old) has succeeded
\* never gets past the store lookup and fails with the invalid-token error.
C2_OldTokenDeadAfterRotation ==
    \A p \in Procs :
        (call[p].op = "Refresh" /\ loc[p].late)
        => /\ pc[p] \in {"refresh_get", "done"}
           /\ pc[p] = "done" => ret[p].err = "USER_REFRESH_TOKEN_INVALID"

\* C3: the swap is all-or-nothing: no state, during the swap or after it
\* reported failure, has only one of its two commands applied.
C3_SwapAllOrNothing ==
    \A p \in Procs : call[p].op = "Refresh" => loc[p].applied \in {0, 2}

(* ---------------------------------------------------------------------- *)
(* Registration                                                           *)
(* ---------------------------------------------------------------------- *)
RegisterDone(p) == call[p].op = "Register" /\ pc[p] = "done"

\* the Register calls launched together with p: same email, code and
\* password, each launched while the code was stored and the email was free
Racers(p) ==
    {q \in Procs : /\ call[q].op = "Register"
                   /\ call[q].email = call[p].email
                   /\ call[q].code = call[p].code
                   /\ call[q].password = call[p].password
                   /\ ~loc[q].late}

\* C4: N concurrent Register calls with the same email, code and password
\* end with exactly one success and N-1 EmailAlreadyExists, and at most one
\* user row for the email.
C4_ConcurrentRegisterOneWinner ==
    \A p \in Procs :
        (/\ p \in Racers(p)
         /\ Cardinality(Racers(p)) >= 2
         /\ \A q \in Racers(p) : pc[q] = "done")
        => /\ Cardinality({q \in Racers(p) : ret[q].err = ""}) = 1
           /\ \A q \in Racers(p) : ret[q].err \in {"", "ErrEmailAlreadyExists"}
           /\ Cardinality(GetByEmail(call[p].email)) <= 1

\* C5: no two user rows share an email, whatever Register calls ran and
\* however they overlapped; a Register that returned success left its row,
\* and one that returned EmailAlreadyExists found the email taken at the
\* insert.
C5_EmailUnique ==
    /\ \A u, v \in users : u.email = v.email => u = v
    /\ \A p \in Procs :
          RegisterDone(p) =>
            /\ ret[p].err = "" =>
                  \E u \in users : u.id = ret[p].uid /\ u.email = call[p].email
            /\ ret[p].err = "ErrEmailAlreadyExists" => GetByEmail(call[p].email) # {}

\* two overlapping Register calls for one email both reached the insert: one
\* created the row, the other was turned away by the unique key
C5_Witness ==
    \E p, q \in Procs :
        /\ p # q
        /\ RegisterDone(p) /\ RegisterDone(q)
        /\ call[p].email = call[q].email
        /\ ~loc[p].late /\ ~loc[q].late
        /\ ret[p].err = ""
        /\ ret[q].err = "ErrEmailAlreadyExists"

(* ---------------------------------------------------------------------- *)
(* Send rate limit                                                        *)
(* ---------------------------------------------------------------------- *)
\* some other call holds an accepted claim for p's email that is less than
\* one window old at the instant p asked for the marker
Blocked(p) ==
    \E c \in sendLog : /\ c.email = call[p].email
                        /\ c.id # call[p].id
                        /\ c.at <= loc[p].at
                        /\ loc[p].at < c.at + RateLimitWindow

\* C6: of the SendRegisterCode calls for one email that ask for the marker
\* within one 60-second window exactly one is accepted and goes on to store
\* a code; every other one fails with TooManyRequests.
C6_OneAcceptedPerWindow ==
    /\ \A c, d \in sendLog :
          (c.email = d.email /\ c.id # d.id /\ c.at <= d.at)
          => d.at >= c.at + RateLimitWindow
    /\ \A p \in Procs :
          call[p].op = "Send" =>
            /\ loc[p].claimed = "no" =>
                  /\ pc[p] = "done"
                  /\ ret[p].err = "ErrTooManyRequests"
                  /\ Blocked(p)
            /\ loc[p].claimed = "yes" =>
                  /\ pc[p] \in {"send_store", "send_mail", "done"}
                  /\ [email |-> call[p].email, at |-> loc[p].at, id |-> call[p].id]
                        \in sendLog
                  /\ pc[p] = "done" => ret[p].err # "ErrTooManyRequests"

\* two calls for one email asked for the marker at the same instant: one
\* was accepted, the other turned away
C6_Witness ==
    \E p, q \in Procs :
        /\ p # q
        /\ call[p].op = "Send" /\ call[q].op = "Send"
        /\ call[p].email = call[q].email
        /\ pc[p] = "done" /\ pc[q] = "done"
        /\ loc[p].at = loc[q].at
        /\ loc[p].claimed = "yes" /\ ret[p].err = ""
        /\ loc[q].claimed = "no" /\ ret[q].err = "ErrTooManyRequests"

\* C7: a SendRegisterCode call that asks for the marker less than 60 seconds
\* after an accepted call for the same email fails with TooManyRequests; one
\* that asks once the window has elapsed is accepted, and succeeds when the
\* transport takes the message.
C7_WindowElapses ==
    \A p \in Procs :
        (call[p].op = "Send" /\ pc[p] = "done" /\ loc[p].claimed # "none")
        => /\ Blocked(p) <=> ret[p].err = "ErrTooManyRequests"
           /\ ~Blocked(p) =>
                 /\ loc[p].claimed = "yes"
                 /\ ret[p].err = "" <=> \E m \in mail : m.id = call[p].id

\* after an accepted send, one call inside the window was turned away and
\* one call at or after the end of the window succeeded
C7_Witness ==
    \E p, q \in Procs :
        /\ p # q
        /\ call[p].op = "Send" /\ call[q].op = "Send"
        /\ call[p].email = call[q].email
        /\ pc[p] = "done" /\ pc[q] = "done"
        /\ ret[q].err = "ErrTooManyRequests"
        /\ ret[p].err = ""
        /\ \E c \in sendLog : /\ c.email = call[p].email
                              /\ c.id # call[p].id
                              /\ c.at <= loc[q].at
                              /\ loc[q].at < c.at + RateLimitWindow
                              /\ loc[p].at >= c.at + RateLimitWindow

\* the step of request p that ends with TooManyRequests, or any earlier step
\* of that call
RejectedSendStep(p) ==
    \/ pc[p] = "idle" /\ pc'[p] # "idle" /\ call'[p].op = "Send"
    \/ pc[p] = "send_get" /\ pc'[p] # "send_get"
    \/ /\ pc[p] = "send_limit" /\ pc'[p] = "done"
       /\ ret'[p].err = "ErrTooManyRequests"

\* C8: a SendRegisterCode call that fails with TooManyRequests has no side
\* effects: none of its steps changes the marker or its expiry, the stored
\* codes, the user table or what was handed to the mail transport.
C8_RejectedSendNoSideEffects ==
    [][\A p \in Procs :
          RejectedSendStep(p) => UNCHANGED <<limits, codes, users, mail, sendLog>>]_vars

\* a call was turned away late in the window, with the marker, the code and
\* the message of the accepted call still in place
C8_Witness ==
    \E p \in Procs :
        /\ call[p].op = "Send" /\ pc[p] = "done"
        /\ ret[p].err = "ErrTooManyRequests"
        /\ loc[p].at > 0
        /\ call[p].email \in DOMAIN limits
        /\ limits[call[p].email].exp < loc[p].at + RateLimitWindow
        /\ call[p].email \in DOMAIN codes
        /\ mail # {}

(* ---------------------------------------------------------------------- *)
(* Access-token validation                                                *)
(* ---------------------------------------------------------------------- *)
ValidateDone(p) == call[p].op = "Validate" /\ pc[p] = "done"

\* the presented token is well formed and carries the access secret's
\* signature
WellSigned(p) ==
    /\ call[p].token.fmt = "jwt"
    /\ env.access # ""
    /\ call[p].token.key = env.access

\* C9: a correctly signed, well-formed token whose expiry lies in the past
\* when ValidateToken is called is rejected with TokenExpired.
C9_ExpiredTokenReported ==
    \A p \in Procs :
        (/\ ValidateDone(p)
         /\ WellSigned(p)
         /\ call[p].token.nbf <= loc[p].at
         /\ call[p].token.exp < loc[p].at)
        => ret[p].err = "USER_TOKEN_EXPIRED"

\* C10: ValidateToken returns a user id only for a subject that parses as a
\* positive integer; a non-numeric, zero or negative subject on an otherwise
\* acceptable token is rejected as InvalidToken.
C10_SubjectPositiveInteger ==
    \A p \in Procs :
        ValidateDone(p) =>
          LET r == ParseInt(call[p].token.sub)
          IN  /\ ret[p].err = "" => (r.ok /\ r.val > 0 /\ ret[p].uid = r.val)
              /\ (/\ ~(r.ok /\ r.val > 0)
                  /\ ret[p].err \notin {"USER_TOKEN_EXPIRED", "AUTH_DATABASE_ERROR"})
                 => ret[p].err = "USER_INVALID_TOKEN"

\* C11: ValidateToken never returns a user id for a token that is empty,
\* malformed or not signed with the access secret; with the access secret
\* configured every such token is rejected as InvalidToken, and the empty
\* token is rejected as InvalidToken in any configuration.
C11_BadTokenRejected ==
    \A p \in Procs :
        (ValidateDone(p) /\ ~WellSigned(p))
        => /\ ret[p].err # ""
           /\ ret[p].uid = 0
           /\ env.access # "" => ret[p].err = "USER_INVALID_TOKEN"
           /\ call[p].token = NoToken => ret[p].err = "USER_INVALID_TOKEN"

\* a token signed with the refresh secret, unexpired and with a numeric
\* subject, was presented and turned away
C11_Witness ==
    \E p \in Procs :
        /\ ValidateDone(p)
        /\ env.access = AccessSecret
        /\ call[p].token.fmt = "jwt"
        /\ call[p].token.key = RefreshSecret
        /\ call[p].token.exp > now
        /\ call[p].token.nbf <= loc[p].at
        /\ ParseInt(call[p].token.sub).ok
        /\ ret[p].err = "USER_INVALID_TOKEN"

(* ---------------------------------------------------------------------- *)
(* Login                                                                  *)
(* ---------------------------------------------------------------------- *)
LoginDone(p) ==
    /\ call[p].op = "Login" /\ pc[p] = "done"
    /\ call[p].email # "" /\ call[p].password # ""

UnknownEmail(p) == GetByEmail(call[p].email) = {}

WrongPassword(p) ==
    \E u \in GetByEmail(call[p].email) : ~checkPasswordHash(call[p].password, u.hash)

\* C12: a Login for an email nobody has and a Login with a wrong password
\* for an existing user return the same result, InvalidCredentials with no
\* tokens, so a failed Login does not tell whether the account exists.
C12_LoginFailureUniform ==
    /\ \A p \in Procs :
          (LoginDone(p) /\ (UnknownEmail(p) \/ WrongPassword(p)))
          => ret[p] = Fail("ErrInvalidCredentials")
    /\ \A p, q \in Procs :
          (LoginDone(p) /\ LoginDone(q) /\ UnknownEmail(p) /\ WrongPassword(q))
          => ret[p] = ret[q]

\* one Login for an unknown email and one with a wrong password both returned
C12_Witness ==
    \E p, q \in Procs :
        /\ LoginDone(p) /\ LoginDone(q)
        /\ UnknownEmail(p) /\ WrongPassword(q)
        /\ ret[p].err = "ErrInvalidCredentials"
        /\ tokens = Empty

(* ---------------------------------------------------------------------- *)
(* Error taxonomy                                                         *)
(* ---------------------------------------------------------------------- *)
Taxonomy ==
    {"ErrInvalidCredentials", "ErrEmailAlreadyExists", "ErrInvalidVerificationCode",
     "ErrVerificationCodeExpired", "ErrTooManyRequests", "USER_INVALID_TOKEN",
     "USER_TOKEN_EXPIRED", "USER_REFRESH_TOKEN_INVALID", "USER_INTERNAL_ERROR",
     "USER_DATABASE_ERROR"}

ValidationFailures ==
    {"email is required", "email, password and code are required",
     "email and password are required",
     "password must be at least 6 characters long"}

\* C13: every error that SendRegisterCode, Register, Login, RefreshToken or
\* Logout returns is a taxonomy kind (or a rejected argument); a store
\* failure comes back as the opaque internal error, never as the raw store
\* error.
C13_ErrorsClassified ==
    \A p \in Procs :
        (pc[p] = "done" /\ call[p].op \in {"Send", "Register", "Login", "Refresh", "Logout"})
        => ret[p].err \in {""} \cup Taxonomy \cup ValidationFailures


(* ---------------------------------------------------------------------- *)
(* Register: argument checks                                              *)
(* ---------------------------------------------------------------------- *)
InvalidFields(p) ==
    \/ call[p].email = ""
    \/ call[p].password = ""
    \/ call[p].code = ""
    \/ call[p].nickname = ""
    \/ Len(call[p].password) < MinPasswordLen

\* the request has got past GET verification_code:<email>
PastCodeRead(p) == pc[p] \in {"reg_ttl", "reg_del", "reg_create"}

\* C14: a Register call with an empty email, password, code or nickname, or
\* with a password shorter than 6 characters, is rejected as a validation
\* failure, and no read or write of the verification-code store or the user
\* store happens for it.
C14_InvalidRegisterStopsAtManager ==
    \A p \in Procs :
        (call[p].op = "Register" /\ InvalidFields(p))
        => /\ ~PastCodeRead(p)
           /\ pc[p] = "done" => ret[p].err \in ValidationFailures


(* ---------------------------------------------------------------------- *)
(* Register: the code and its expiry                                      *)
(* ---------------------------------------------------------------------- *)
\* the code 123456 was stored for a@x.com at instant 0 and handed to the
\* mail transport, and request p is the only request that names a@x.com
OnlyCallFor(p) ==
    /\ [to |-> "a@x.com", code |-> "123456", id |-> 0] \in mail
    /\ call[p].email = "a@x.com"
    /\ \A q \in Procs \ {p} : call[q].email # "a@x.com"

\* request p is a well-formed Register that presents the stored code
PresentsStoredCode(p) ==
    /\ OnlyCallFor(p)
    /\ call[p].op = "Register"
    /\ call[p].code = "123456"
    /\ ~InvalidFields(p)

\* C15: a Register call presenting exactly the stored code, made after the
\* stored code's expiry instant, fails with VerificationCodeExpired and
\* creates no user.
C15_ExpiredCodeReportedExpired ==
    \A p \in Procs :
        (PresentsStoredCode(p) /\ loc[p].late /\ pc[p] = "done")
        => /\ ret[p].err = "ErrVerificationCodeExpired"
           /\ GetByEmail("a@x.com") = {}


\* request p is a SendRegisterCode call that returned success
SendOk(p) == call[p].op = "Send" /\ pc[p] = "done" /\ ret[p].err = ""

\* the code that request p handed to the mail transport
SentCode(p) == (CHOOSE m \in mail : m.id = call[p].id).code

\* Register q arrived after SendRegisterCode p had delivered its message, in
\* the same instant, and nothing else was asked for that email
RegisterAfterSend(p, q) ==
    /\ SendOk(p)
    /\ RegisterDone(q)
    /\ call[q].email = call[p].email
    /\ ~InvalidFields(q)
    /\ loc[q].sent = Cardinality(MailTo(call[q].email))
    /\ now = loc[p].at
    /\ \A r \in Procs \ {p, q} : call[r].email # call[p].email

\* C16: a Register that follows a successful SendRegisterCode at once, with
\* the same email, a password of 6 characters or more and a nickname,
\* succeeds and creates the user when it presents the code that was sent,
\* and fails with InvalidVerificationCode, creating nothing, when it presents
\* any other code.
C16_SentCodeAcceptedOthersRejected ==
    \A p, q \in Procs :
        RegisterAfterSend(p, q)
        => IF call[q].code = SentCode(p)
           THEN /\ ret[q].err = ""
                /\ \E u \in GetByEmail(call[q].email) : u.id = ret[q].uid
           ELSE /\ ret[q].err = "ErrInvalidVerificationCode"
                /\ GetByEmail(call[q].email) = {}

C16_Witness ==
    \E p, q \in Procs :
        /\ RegisterAfterSend(p, q)
        /\ call[q].code = SentCode(p)
        /\ ret[q].err = ""
        /\ GetByEmail(call[q].email) # {}

\* the other half of the case: the code presented is not the one sent
C16_OtherCode ==
    \E p, q \in Procs :
        /\ RegisterAfterSend(p, q)
        /\ call[q].code # SentCode(p)
        /\ ret[q].err = "ErrInvalidVerificationCode"


(* ---------------------------------------------------------------------- *)
(* Logout                                                                 *)
(* ---------------------------------------------------------------------- *)
LogoutDone(p) == call[p].op = "Logout" /\ pc[p] = "done"

\* C17: for a non-empty refresh token t, Logout(t) followed by Logout(t)
\* both return success: deleting a record that is already absent is not an
\* error.
C17_LogoutTwiceSucceeds ==
    \A p, q \in Procs :
        (/\ p # q
         /\ LogoutDone(p) /\ LogoutDone(q)
         /\ call[p].token = call[q].token
         /\ call[p].token # NoToken)
        => ret[p] = Ok /\ ret[q] = Ok

C17_Witness ==
    \E p, q \in Procs :
        /\ p < q
        /\ LogoutDone(p) /\ LogoutDone(q)
        /\ call[p].token = call[q].token
        /\ call[p].token \in issued
        /\ ret[p] = Ok /\ ret[q] = Ok
        /\ ~Resolves(call[p].token)


(* ---------------------------------------------------------------------- *)
(* DeleteAllRefreshTokens                                                 *)
(* ---------------------------------------------------------------------- *)
RevokeOk(p) == call[p].op = "RevokeAll" /\ pc[p] = "done" /\ ret[p].err = ""

\* the user a refresh token was issued to
Owner(t) == ParseInt(t.sub).val

\* C18: when DeleteAllRefreshTokens(userID) returns success, every record
\* owned by userID (every one that was there when the call began) has been
\* deleted, and no record owned by another user has been deleted by it.
C18_RevokeAllExact ==
    \A p \in Procs :
        RevokeOk(p)
        => /\ \A t \in loc[p].start :
                 Owner(t) = call[p].user => (t \in loc[p].keys \/ ~Resolves(t))
           /\ \A t \in loc[p].keys : Owner(t) = call[p].user


(* ---------------------------------------------------------------------- *)
(* SendRegisterCode: the stored code                                      *)
(* ---------------------------------------------------------------------- *)
\* request p performs its SET of the verification code in this step
StoresCode(p) == pc[p] = "send_store" /\ pc'[p] = "send_mail"

MailFailed(p) ==
    /\ call[p].op = "Send"
    /\ pc[p] = "done"
    /\ ret[p].err = "failed to send verification email"
    /\ now = loc[p].at
    /\ \A q \in Procs \ {p} : call[q].email # call[p].email

\* C20: when mail delivery fails after the code was stored, SendRegisterCode
\* returns an error and the code is not taken back: it stays stored with
\* its expiry of 10 minutes.
C20_FailedMailKeepsCode ==
    \A p \in Procs :
        MailFailed(p)
        => /\ call[p].email \in Live(codes)
           /\ codes[call[p].email].exp = loc[p].at + CodeTTL
           /\ codes[call[p].email].code \in Codes
           /\ \A m \in mail : m.id # call[p].id

C20_Witness ==
    \E p \in Procs :
        /\ MailFailed(p)
        /\ call[p].email \in Live(codes)
        /\ codes[call[p].email].exp = now + CodeTTL


(* ---------------------------------------------------------------------- *)
(* Register: deleting the consumed code                                   *)
(* ---------------------------------------------------------------------- *)
\* C21: a failed delete of the consumed verification code is not
\* propagated: whatever the delete answers, Register goes on to the insert
\* without returning, and an insert that adds the user ends the call with
\* success.
C21_FailedDeleteNotPropagated ==
    [][\A p \in Procs :
         /\ (pc[p] = "reg_del" /\ pc'[p] # "reg_del")
            => (pc'[p] = "reg_create" /\ ret'[p] = ret[p] /\ users' = users)
         /\ (pc[p] = "reg_create" /\ pc'[p] # "reg_create" /\ users' # users)
            => (pc'[p] = "done" /\ ret'[p].err = ""
                /\ \E u \in users' \ users : u.email = call[p].email /\ u.id = ret'[p].uid)]_vars

\* the delete failed (the code is still stored although nothing else was
\* asked for that email) and the call returned success with the user created
C21_Witness ==
    \E p \in Procs :
        /\ PresentsStoredCode(p)
        /\ pc[p] = "done"
        /\ ret[p].err = ""
        /\ "a@x.com" \in Live(codes)
        /\ GetByEmail("a@x.com") # {}


\* request p is a Register call that got as far as the insert
ReachedCreate(p) ==
    /\ call[p].op = "Register"
    /\ \/ pc[p] = "reg_create"
       \/ pc[p] = "done" /\ ret[p].err \in {"", "ErrEmailAlreadyExists", RawStoreError}

\* no SendRegisterCode call has been made for the email of request p, so no
\* code was stored for it after the one the service started with
NoSendFor(p) ==
    \A q \in Procs : call[q].op = "Send" => call[q].email # call[p].email

LeavesGetByEmail(p) == pc[p] = "send_get" /\ pc'[p] # "send_get"

\* C23: SendRegisterCode for an email that belongs to a user fails with
\* EmailAlreadyExists without claiming the rate-limit marker, storing a code
\* or sending mail; a failure of the user store other than "not found" ends
\* the call with an error that is not EmailAlreadyExists, and the call does
\* not go on as if the email were free.
C23_TakenEmailRejectedEarly ==
    /\ [](\A p \in Procs :
            (call[p].op = "Send" /\ pc[p] = "done" /\ ret[p].err = "ErrEmailAlreadyExists")
            => /\ loc[p].claimed = "none"
               /\ \A l \in sendLog : l.id # call[p].id
               /\ \A m \in mail : m.id # call[p].id)
    /\ [][\A p \in Procs :
            LeavesGetByEmail(p)
            => /\ UNCHANGED regStores
               /\ IF GetByEmail(call[p].email) # {}
                  THEN /\ pc'[p] = "done"
                       /\ ret'[p].err \in {"ErrEmailAlreadyExists", RawStoreError}
                  ELSE \/ pc'[p] = "send_limit"
                       \/ pc'[p] = "done" /\ ret'[p].err = RawStoreError]_vars

C23_Witness ==
    \E p \in Procs :
        /\ call[p].op = "Send" /\ call[p].email = "b@x.com"
        /\ pc[p] = "done" /\ ret[p].err = "ErrEmailAlreadyExists"
        /\ "b@x.com" \notin DOMAIN limits
        /\ "b@x.com" \notin DOMAIN codes
        /\ MailTo("b@x.com") = {}

\* the other case: the user store failed and the call ended with its error
C23_StoreFailed ==
    \E p \in Procs :
        /\ call[p].op = "Send" /\ call[p].email = "b@x.com"
        /\ pc[p] = "done" /\ ret[p].err = RawStoreError
        /\ "b@x.com" \notin DOMAIN limits


(* ---------------------------------------------------------------------- *)
(* RefreshToken: no record                                                *)
(* ---------------------------------------------------------------------- *)
\* request p leaves its lookup of the refresh token in this step
LooksUp(p) == pc[p] = "refresh_get" /\ pc'[p] # "refresh_get"

\* C24: RefreshToken with a token that has no record in the store (never
\* issued, rotated away, logged out or expired) fails with the
\* invalid-refresh-token error, hands back no token pair and writes nothing
\* to the store.
C24_NoRecordNoRotation ==
    /\ [][\A p \in Procs :
            (LooksUp(p) /\ ~Resolves(call[p].token))
            => /\ pc'[p] = "done"
               /\ ret'[p] = Fail("USER_REFRESH_TOKEN_INVALID")
               /\ UNCHANGED authStores]_vars
    /\ [](\A p \in Procs :
            (RefreshDone(p) /\ ret[p].err = "USER_REFRESH_TOKEN_INVALID")
            => /\ ret[p].access = NoToken /\ ret[p].refresh = NoToken
               /\ loc[p].applied = 0)

\* a token that was issued and has run out is refused
C24_Witness ==
    \E p \in Procs :
        /\ RefreshDone(p)
        /\ call[p].token \in issued
        /\ call[p].token.exp <= now
        /\ tokens = Empty
        /\ ret[p] = Fail("USER_REFRESH_TOKEN_INVALID")

\* a token that was logged out is refused
C24_LoggedOut ==
    \E p, q \in Procs :
        /\ LogoutDone(q) /\ ret[q] = Ok /\ q < p
        /\ RefreshDone(p) /\ call[p].token = call[q].token
        /\ call[p].token \in issued
        /\ ret[p] = Fail("USER_REFRESH_TOKEN_INVALID")

\* a token that was never issued is refused
C24_NeverIssued ==
    \E p \in Procs :
        /\ RefreshDone(p) /\ call[p].token = ForgedToken
        /\ ret[p] = Fail("USER_REFRESH_TOKEN_INVALID")


(* ---------------------------------------------------------------------- *)
(* Missing signing secrets                                                *)
(* ---------------------------------------------------------------------- *)
\* the error kinds that stand for an internal failure
InternalKinds == {"USER_INTERNAL_ERROR", "USER_DATABASE_ERROR", "AUTH_DATABASE_ERROR"}

SecretMissing == env.access = "" \/ env.refresh = ""

\* request p is a Login with the right password for an existing user
GoodLogin(p) ==
    /\ call[p].op = "Login"
    /\ \E u \in GetByEmail(call[p].email) : checkPasswordHash(call[p].password, u.hash)

C25_Refresh ==
    \E p \in Procs :
        /\ SecretMissing
        /\ RefreshDone(p) /\ call[p].token \in issued
        /\ ret[p] = Fail("USER_INTERNAL_ERROR")
        /\ Resolves(call[p].token)

\* ValidateToken found the access secret missing
C25_Validate ==
    \E p \in Procs :
        /\ env.access = ""
        /\ ValidateDone(p) /\ call[p].token = OldAccessToken
        /\ ret[p] = Fail("AUTH_DATABASE_ERROR")


(* ---------------------------------------------------------------------- *)
(* Register: what is handed back                                          *)
(* ---------------------------------------------------------------------- *)
\* C26: the User a successful Register hands back has an empty password
\* hash, while the row that was inserted holds the hash of the password.
C26_ReturnedUserHasNoHash ==
    \A p \in Procs :
        (RegisterDone(p) /\ ret[p].err = "")
        => /\ ret[p].hash = EmptyHash
           /\ \E u \in users :
                 /\ u.id = ret[p].uid
                 /\ u.email = call[p].email
                 /\ u.hash # EmptyHash
                 /\ checkPasswordHash(call[p].password, u.hash)

C26_Witness ==
    \E p \in Procs :
        /\ RegisterDone(p) /\ ret[p].err = ""
        /\ ret[p].hash = EmptyHash
        /\ \E u \in users : u.id = ret[p].uid /\ u.hash = Hash(call[p].password, u.hash.salt)


(* ---------------------------------------------------------------------- *)
(* Register: a refused code                                               *)
(* ---------------------------------------------------------------------- *)
CodeErrors == {"ErrInvalidVerificationCode", "ErrVerificationCodeExpired"}

\* request p returns from Register with a code error in this step
RefusesCode(p) ==
    /\ call[p].op = "Register"
    /\ pc[p] # "done" /\ pc'[p] = "done"
    /\ ret'[p].err \in CodeErrors

\* q is the later Register: the code stored at the start is still live and
\* unexpired, q presents it, and only p and q have named the email
RetryWithStoredCode(p, q) ==
    /\ p < q
    /\ [to |-> "a@x.com", code |-> "123456", id |-> 0] \in mail
    /\ RegisterDone(p) /\ call[p].email = "a@x.com" /\ ret[p].err \in CodeErrors
    /\ RegisterDone(q) /\ call[q].email = "a@x.com" /\ call[q].code = "123456"
    /\ ~loc[q].late
    /\ now < CodeTTL
    /\ \A r \in Procs \ {p, q} : call[r].email # "a@x.com"

\* C27: a Register call that fails with InvalidVerificationCode or
\* VerificationCodeExpired deletes nothing and creates nothing, so a later
\* Register with the right, unexpired code still succeeds.
C27_RefusedCodeChangesNothing ==
    /\ [][\A p \in Procs : RefusesCode(p) => UNCHANGED regStores]_vars
    /\ [](\A p, q \in Procs :
            RetryWithStoredCode(p, q)
            => /\ ret[q].err = ""
               /\ \E u \in GetByEmail("a@x.com") : u.id = ret[q].uid)

C27_Witness ==
    \E p, q \in Procs :
        /\ RetryWithStoredCode(p, q)
        /\ call[p].code = "654321"
        /\ ret[p].err = "ErrInvalidVerificationCode"
        /\ ret[q].err = ""
        /\ GetByEmail("a@x.com") # {}

\* the stale-code refusal happens as well: the key ran out between the GET
\* and the TTL call
C27_Expired ==
    \E p \in Procs :
        /\ RegisterDone(p)
        /\ ret[p].err = "ErrVerificationCodeExpired"
        /\ users = {}


(* ---------------------------------------------------------------------- *)
(* Login: the pair it hands out                                           *)
(* ---------------------------------------------------------------------- *)
LoginOk(p) == call[p].op = "Login" /\ pc[p] = "done" /\ ret[p].err = ""

\* the id of the user with this email
UserID(email) == (CHOOSE u \in users : u.email = email).id

\* request p returns from Login with success in this step
LoginSucceeds(p) ==
    /\ call[p].op = "Login"
    /\ pc[p] # "done" /\ pc'[p] = "done"
    /\ ret'[p].err = ""

\* C28: when Login succeeds for user u, the refresh token it returns
\* resolves in the store to u's id with an expiry 7 days after it was
\* minted, and ValidateToken accepts the access token it returns and yields
\* u's id.
C28_LoginPairIsUsable ==
    /\ [][\A p \in Procs :
            LoginSucceeds(p)
            => LET t == ret'[p].refresh
               IN  /\ t \in DOMAIN tokens'
                   /\ t.exp > now
                   /\ tokens'[t] = [uid |-> UserID(call[p].email),
                                    exp |-> t.nbf + RefreshExpiresIn]]_vars
    /\ [](\A p, q \in Procs :
            (LoginOk(p) /\ ValidateDone(q) /\ call[q].token = ret[p].access)
            => /\ ret[q].err = ""
               /\ ret[q].uid = UserID(call[p].email))

C28_Witness ==
    \E p, q \in Procs :
        /\ p < q
        /\ LoginOk(p) /\ call[p].email = "b@x.com"
        /\ Resolves(ret[p].refresh)
        /\ tokens[ret[p].refresh].uid = 2
        /\ ValidateDone(q) /\ call[q].token = ret[p].access
        /\ ret[q].err = "" /\ ret[q].uid = 2


(* ---------------------------------------------------------------------- *)
(* Logout                                                                 *)
(* ---------------------------------------------------------------------- *)
\* C29: a RefreshToken(t) call that starts after Logout(t) has returned
\* success never gets past the store lookup and fails with the
\* invalid-refresh-token error.
C29_LoggedOutTokenDead ==
    \A p \in Procs :
        (call[p].op = "Refresh" /\ loc[p].revoked)
        => /\ pc[p] \in {"refresh_get", "done"}
           /\ pc[p] = "done" => ret[p].err = "USER_REFRESH_TOKEN_INVALID"


(* ---------------------------------------------------------------------- *)
(* Distinct refresh tokens                                                *)
(* ---------------------------------------------------------------------- *)
\* request p mints its refresh token in this step
Mints(p) ==
    /\ pc[p] \in {"login_mint", "refresh_mint"}
    /\ pc'[p] \in {"login_store", "swap_del"}

\* C30: a refresh token minted by Login or RefreshToken differs from every
\* refresh token recorded in the store at that moment and from the old
\* token being rotated, also when the same user got a token earlier in the
\* same second.
C30_MintedTokenIsFresh ==
    [][\A p \in Procs :
          Mints(p)
          => /\ loc'[p].refresh \notin Live(tokens)
             /\ pc[p] = "refresh_mint" => loc'[p].refresh # call[p].token]_vars


(* ---------------------------------------------------------------------- *)
(* Logout racing a rotation                                               *)
(* ---------------------------------------------------------------------- *)
\* C31: a rotation writes its new refresh-token record only if the old
\* record still exists at the moment of the swap; when a concurrent
\* Logout(t) has deleted it first, RefreshToken(t) persists nothing.
C31_SwapNeedsOldRecord ==
    \A p \in Procs :
        (call[p].op = "Refresh" /\ loc[p].applied = 2) => loc[p].had


(* ---------------------------------------------------------------------- *)
(* DeleteAllRefreshTokens racing a rotation                               *)
(* ---------------------------------------------------------------------- *)
\* C32: once DeleteAllRefreshTokens(userID) has returned success, no refresh
\* token that userID held when the call began resolves, and neither does a
\* refresh token obtained by rotating one of them.
C32_RevokeAllEndsSessions ==
    \A p \in Procs :
        RevokeOk(p)
        => /\ \A t \in loc[p].start : Owner(t) = call[p].user => ~Resolves(t)
           /\ \A q \in Procs :
                 (RefreshOk(q) /\ call[q].token \in loc[p].start
                    /\ Owner(call[q].token) = call[p].user)
                 => ~Resolves(ret[q].refresh)


(* ---------------------------------------------------------------------- *)
(* Rotation keeps the owner                                               *)
(* ---------------------------------------------------------------------- *)
\* request p completes its rotation in this step
Rotates(p) ==
    /\ call[p].op = "Refresh"
    /\ pc[p] = "swap_set" /\ pc'[p] = "done"
    /\ ret'[p].err = ""

\* C33: every record of the store maps a refresh token to the user it was
\* issued to, and when RefreshToken(old) succeeds the new record maps to the
\* user id that old mapped to and the new access token has that user id as
\* its subject.
C33_RotationKeepsOwner ==
    /\ [](\A t \in DOMAIN tokens : tokens[t].uid = Owner(t))
    /\ [][\A p \in Procs :
            Rotates(p)
            => LET old == call[p].token
                   new == ret'[p].refresh
               IN  /\ new \in DOMAIN tokens'
                   /\ tokens'[new].uid = Owner(old)
                   /\ ParseInt(ret'[p].access.sub) = [ok |-> TRUE, val |-> Owner(old)]]_vars

C33_Witness ==
    \E p \in Procs :
        /\ RefreshOk(p)
        /\ Owner(call[p].token) = 2
        /\ ret[p].refresh # call[p].token
        /\ Resolves(ret[p].refresh) /\ tokens[ret[p].refresh].uid = 2
        /\ ret[p].access.sub = FormatInt(2)


(* ---------------------------------------------------------------------- *)
(* Refreshing again and again                                             *)
(* ---------------------------------------------------------------------- *)
\* C34: a client that always presents the most recent refresh token it was
\* given succeeds with every RefreshToken call it makes in succession.
C34_ClientCanKeepRefreshing ==
    \A p \in Procs :
        (call[p].op = "Refresh" /\ pc[p] = "done") => ret[p].err = ""


(* ---------------------------------------------------------------------- *)
(* The marker of a failed send                                            *)
(* ---------------------------------------------------------------------- *)
\* request p claimed the marker and then failed to store the code or to
\* deliver the message
FailedAfterClaim(p) ==
    /\ call[p].op = "Send" /\ pc[p] = "done"
    /\ loc[p].claimed = "yes"
    /\ ret[p].err # ""

\* C35: from the moment SendRegisterCode claims the marker, the marker is in
\* place until its expiry 60 seconds later, also when storing the code or
\* delivering the message fails; a call for that email that asks for the
\* marker inside the window fails with TooManyRequests.
C35_MarkerOutlivesFailure ==
    \A p \in Procs :
        (call[p].op = "Send" /\ loc[p].claimed = "yes")
        => /\ now < loc[p].at + RateLimitWindow
                => /\ call[p].email \in Live(limits)
                   /\ limits[call[p].email].exp = loc[p].at + RateLimitWindow
           /\ \A q \in Procs \ {p} :
                 (/\ call[q].op = "Send" /\ call[q].email = call[p].email
                  /\ loc[q].claimed # "none"
                  /\ loc[p].at <= loc[q].at
                  /\ loc[q].at < loc[p].at + RateLimitWindow)
                 => /\ loc[q].claimed = "no"
                    /\ pc[q] = "done"
                    /\ ret[q].err = "ErrTooManyRequests"

\* a call failed at the code store (C35_MailFailed: at the transport), and
\* a call that asked for the marker 59 seconds later was turned away
C35_Witness ==
    \E p, q \in Procs :
        /\ FailedAfterClaim(p)
        /\ ret[p].err = RawStoreError
        /\ call[q].op = "Send" /\ call[q].email = call[p].email
        /\ pc[q] = "done" /\ ret[q].err = "ErrTooManyRequests"
        /\ loc[q].at = loc[p].at + RateLimitWindow - 1

C35_MailFailed ==
    \E p, q \in Procs :
        /\ FailedAfterClaim(p)
        /\ ret[p].err = "failed to send verification email"
        /\ call[q].op = "Send" /\ call[q].email = call[p].email
        /\ pc[q] = "done" /\ ret[q].err = "ErrTooManyRequests"
        /\ loc[q].at = loc[p].at + RateLimitWindow - 1


(* ---------------------------------------------------------------------- *)
(* Register: EmailAlreadyExists                                           *)
(* ---------------------------------------------------------------------- *)
\* request p returns from Register with EmailAlreadyExists in this step
ReportsTaken(p) ==
    /\ call[p].op = "Register"
    /\ pc[p] # "done" /\ pc'[p] = "done"
    /\ ret'[p].err = "ErrEmailAlreadyExists"

C36_OtherCause ==
    \E p \in Procs :
        /\ RegisterDone(p) /\ ret[p].err = RawStoreError
        /\ GetByEmail(call[p].email) = {}


(* ---------------------------------------------------------------------- *)
(* Register: the age of an accepted code                                  *)
(* ---------------------------------------------------------------------- *)
\* request p finds the presented code valid in this step
Accepts(p) ==
    /\ call[p].op = "Register"
    /\ pc[p] = "reg_ttl" /\ pc'[p] = "reg_del"

\* C37: Register accepts a code only within 10 minutes of a SendRegisterCode
\* that stored it: when the code is accepted, either the record it was read
\* from has not reached its expiry or the record now stored holds that code.
C37_AcceptedCodeIsYoung ==
    [][\A p \in Procs :
          Accepts(p)
          => \/ now <= loc[p].seen
             \/ /\ call[p].email \in Live(codes)
                /\ codes[call[p].email].code = call[p].code]_vars


(* ---------------------------------------------------------------------- *)
(* DeleteAllRefreshTokens: which failures end the call                    *)
(* ---------------------------------------------------------------------- *)
\* a GET of an owner fails for request p in this step
OwnerReadFails(p) == loc'[p].skipped # loc[p].skipped

\* C38: DeleteAllRefreshTokens returns an error when the SCAN or the final
\* DEL fails. A failed GET of a scanned record's owner does not end the
\* call: the record is passed over, it is not among the keys the call
\* deletes, and the call can still return success.
C38_OnlyScanAndDeleteFail ==
    /\ [](\A p \in Procs :
            call[p].op = "RevokeAll"
            => /\ loc[p].claimed \in {"scan failed", "delete failed"}
                    => (pc[p] = "done" /\ ret[p].err # "")
               /\ (pc[p] = "done" /\ ret[p].err # "")
                    => loc[p].claimed \in {"scan failed", "delete failed"}
               /\ loc[p].skipped \cap loc[p].keys = {})
    /\ [][\A p \in Procs :
            /\ OwnerReadFails(p)
               => /\ pc'[p] = "revoke_scan"
                  /\ loc'[p].keys = loc[p].keys
                  /\ tokens' = tokens
            /\ (pc[p] = "revoke_del" /\ pc'[p] = "done")
               => \A t \in loc[p].skipped : t \in DOMAIN tokens => t \in DOMAIN tokens']_vars

\* the owner of the user's record could not be read: the call returned
\* success and the record still resolves
C38_Witness ==
    \E p \in Procs :
        /\ RevokeOk(p)
        /\ \E t \in loc[p].skipped :
              /\ Owner(t) = call[p].user
              /\ Resolves(t)

\* the SCAN failed for one call and the DEL for another: both returned the
\* error and every record is still there
C38_Failures ==
    \E p, q \in Procs :
        /\ loc[p].claimed = "scan failed" /\ ret[p].err = RawStoreError
        /\ loc[q].claimed = "delete failed" /\ ret[q].err = RawStoreError
        /\ Cardinality(Live(tokens)) = 2


(* ---------------------------------------------------------------------- *)
(* Register: which code the delete removes                                *)
(* ---------------------------------------------------------------------- *)
\* request p is past its best-effort delete in this step
PassesDelete(p) ==
    /\ call[p].op = "Register"
    /\ pc[p] = "reg_del" /\ pc'[p] = "reg_create"

\* C39: Register deletes only the verification code it validated: when the
\* record stored at the moment of the delete is a newer one than the record
\* the call read, the delete leaves it in place.
C39_DeleteSparesNewerCode ==
    [][\A p \in Procs :
          (/\ PassesDelete(p)
           /\ call[p].email \in Live(codes)
           /\ codes[call[p].email] # [code |-> loc[p].code, exp |-> loc[p].seen])
          => codes' = codes]_vars

====
